---- MODULE Spec2Model ----
(***************************************************************************)
(* Auto-reply engine of pranesh-rpo/Coup.                                  *)
(*                                                                         *)
(*   SpecHandler  AutoReplyHandler (src/src/config.js): the event-driven   *)
(*                handler, one task per inbound NewMessage event, with     *)
(*                its cooldown map, its in-flight set and the 30 s         *)
(*                auto-cleanup timers.                                     *)
(*   SpecPoll     AutoReplyRealtimeService, stealth polling variant        *)
(*                (src/unnamed/part_000, lines 504-918): pollAccount and   *)
(*                sendReplyWithDelay over the last-seen table.             *)
(*   SpecSvc      AutoReplyRealtimeService, event-driven variant           *)
(*                (src/unnamed/part_000, lines 12-500): connectAccount,    *)
(*                disconnectAccount, performHealthCheck, the presence      *)
(*                walk and refresh over the connectedAccounts registry,    *)
(*                two entry points running at a time, one account.         *)
(*   SpecWalk     the same service: performHealthCheck and the presence    *)
(*                walk over two registered accounts, with disconnectAccount *)
(*                called at any moment.                                    *)
(*   SpecPresence the presence cycle alone over two accounts, with the     *)
(*                fairness of its timer and of its awaits.                 *)
(*   SpecLife     the same service: start, stop and startOfflineStatusLoop *)
(*                called at any moment, one account.                       *)
(*   SpecHealth   the same service: performHealthCheck over two           *)
(*                registered accounts with the clock advancing, for the    *)
(*                lastHealthCheck timestamps.                              *)
(*   SpecAuth     the same service: the health check and the presence      *)
(*                walk over two registered accounts whose credentials can  *)
(*                be revoked.                                              *)
(*   SpecSeen     the polling variant: one account polling while the polls *)
(*                of other accounts fill the last-seen table to its limit. *)
(*   SpecPollLife the polling variant: startPolling, stopPolling,          *)
(*                connectAccount, refresh and stop over two accounts.      *)
(*   SpecLog      LoggerBotService (src/src/services/loggerBotService.js): *)
(*                sendLog calls and /start messages of two users.          *)
(*   SpecRate     RateLimiter.checkRateLimit (src/unnamed/part_001) for    *)
(*                two users as time passes.                                *)
(*   SpecUtil     calls of the pure functions isMessageFromSelf,           *)
(*                getRandomOfflineInterval and sanitizeLimit over bounded  *)
(*                sets of inputs.                                          *)
(*                                                                         *)
(* The runtime is single-threaded and cooperative: an action is the code   *)
(* a task runs between two awaits.  A task position ("pc") names the await *)
(* the task is suspended at.  Awaits that neither read nor write shared    *)
(* state between them are folded into one position; each such fold is      *)
(* noted at the action.                                                    *)
(***************************************************************************)
EXTENDS Integers, Sequences, FiniteSets, TLC

\* ------------------------------------------------------------------ bounds
MaxHTasks == 2            \* inbound events handled (concurrently or in turn)
MaxMsgId == 2             \* message ids 1..MaxMsgId
MaxTicks == 3             \* number of time advances in a behaviour
MaxPolls == 2             \* pollAccount invocations (overlapping or in turn)
MaxIntervals == 2         \* setInterval calls of startPolling in a behaviour
MaxAccounts == 2          \* account ids 1..MaxAccounts
MaxClients == 2           \* client objects 1..MaxClients
MaxSvcTasks == 2          \* service entry points running at a time
MaxSvcAccounts == 1       \* accounts that SpecSvc and SpecLife bring into play
MaxWalkTasks == 1         \* service entry points running at a time in SpecWalk, SpecLife
MaxTimers == 2            \* presence timers pending at a time
MaxQTasks == 2            \* connectAccount and refresh calls in flight (polling variant)
MaxLogUsers == 2          \* users of the logger bot
MaxLogTasks == 2          \* sendLog calls and /start handlers in flight
RandDen == 65536          \* a draw of Math.random is k / RandDen
RandEdge == 8             \* draws taken next to 0 and next to 1
RandStep == 4096          \* and every RandStep-th draw in between
MaxRateUsers == 2         \* users of the rate limiter
MaxAttempts == 2          \* limits 0..MaxAttempts passed to checkRateLimit
OtherChats == 499         \* chats of other accounts whose entries enter the last-seen table
MaxIdOffset == 4          \* user ids 2^53 - 2 .. 2^53 - 2 + MaxIdOffset

\* ------------------------------------------------------- program constants
COOLDOWN_MS == 1800000    \* 30 * 60 * 1000, hasRepliedToChatRecently
AUTO_CLEANUP_MS == 30000  \* setTimeout(..., 30000), markMessageProcessing
LAST_SEEN_LIMIT == 500    \* setLastSeenMessageId: size above which the table is trimmed
LAST_SEEN_KEEP == 250     \* setLastSeenMessageId: entries kept by a trim
OFFLINE_INTERVAL_MIN == 8000   \* shortest delay of the presence cycle
OFFLINE_INTERVAL_MAX == 12000  \* longest delay of the presence cycle
DEFAULT_LIMIT == 100      \* sanitizeLimit: the limit returned for an invalid one
RATE_WINDOW_MS == 60000   \* checkRateLimit, default windowMs
HEALTH_CHECK_MS == 120000 \* startHealthCheckLoop: period of the health check

\* Time advances by one of these amounts (milliseconds).  Two short steps
\* make the auto-cleanup delay; a short and a long one make the cooldown
\* window exactly.
TimeSteps == {15000, 1785000}
\* The polling model advances time in long steps only: two of them exceed
\* the cooldown window, one does not.
PollTimeSteps == {1785000}
\* The health-check model advances time by half the period of the check.
HealthTimeSteps == {HEALTH_CHECK_MS \div 2}

VARIABLES
  \* ---- AutoReplyHandler
  repliedChats,        \* Map chatKey -> lastReplyTime (a function on the keys present)
  processingMessages,  \* Set of message keys being processed
  cleanupTimers,       \* pending setTimeout callbacks of markMessageProcessing
  settings,            \* what configService.getAccountSettings returns
  task,                \* handleIncomingMessage invocations
  replyLog,            \* history: the client.sendMessage calls that completed
  markedAt,            \* history: when and by which task each present marker was last set
  now,                 \* Date.now()
  nTicks,              \* time advances so far
  \* ---- AutoReplyRealtimeService, polling variant
  pollingAccounts,     \* Map accountId -> { intervalId }
  activeIntervals,     \* the setInterval timers not cleared
  nextIntervalId,      \* the id the next setInterval returns
  lastSeenMessages,    \* Map "accountId_chatId" -> messageId, in insertion order
  inbox,               \* per chat, the last message the server holds
  pollClient,          \* client.connected of the account's client
  ptask,               \* pollAccount invocations
  pollLog,             \* history: per message, the replies sendReplyWithDelay sent
  \* ---- AutoReplyRealtimeService, event-driven variant
  connectedAccounts,   \* Map accountId -> { client, ... }, in insertion order
  handlers,            \* per client, its NewMessage handlers (their number)
  connected,           \* per client, client.connected
  accountSettings,     \* per account, what configService.getAccountSettings returns
  stask,               \* the service's running entry points
  offlineInterval,     \* this.offlineInterval: the last presence timer's handle, 0 for null
  offlineTimers,       \* the presence timers (setTimeout) pending
  healthCheckInterval, \* this.healthCheckInterval: the interval's handle, 0 for null
  healthIntervals,     \* the health-check intervals (setInterval) not cleared
  dcall,               \* history: the disconnectAccount call its caller awaits
  stopped,             \* history: stop() has run while no start() was running, and
                       \*   start, connectAccount, refresh and startOfflineStatusLoop
                       \*   were not called since
  revoked,             \* history: the accounts whose connect failed on revoked
                       \*   credentials, their settings not changed since
  \* ---- functions without state
  ucall,               \* the last call of one of them: its arguments and its result
  \* ---- RateLimiter
  attempts,            \* Map userId -> { count, resetTime }
  rateHist,            \* history: per user, the limit that opened the current window,
                       \*   the calls allowed in it, and whether a call in it came
                       \*   with another limit
  \* ---- AutoReplyRealtimeService, polling variant, several accounts
  qpolls,              \* the accounts with a pollAccount call awaiting its settings
  qtask,               \* the connectAccount and refresh calls in flight
  \* ---- LoggerBotService
  blockedUsers,        \* Set of the users taken to have blocked the logger bot
  loggerStarted,       \* per user, users.logger_bot_started = 1 in the database
  gtask                \* the sendLog calls and /start handlers in flight

hvars == <<repliedChats, processingMessages, cleanupTimers, task, replyLog, markedAt>>
tvars == <<now, nTicks>>
pvars == <<pollingAccounts, activeIntervals, nextIntervalId, lastSeenMessages, inbox,
           pollClient, ptask, pollLog>>
lvars == <<offlineInterval, offlineTimers, healthCheckInterval, healthIntervals>>
cvars == <<dcall, stopped, revoked>>
rvars == <<attempts, rateHist>>
qvars == <<qpolls, qtask>>
gvars == <<blockedUsers, loggerStarted, gtask>>
uvars == <<ucall, rvars, qvars, gvars>>
svars == <<connectedAccounts, handlers, connected, accountSettings, stask, lvars, cvars,
           uvars>>
xvars == <<hvars, settings, tvars, pvars, uvars>>
ovars == <<xvars, lvars, cvars>>
vars == <<hvars, settings, tvars, pvars, svars>>

\* ================================================================ handler
HTasks == 1..MaxHTasks
MsgIds == 1..MaxMsgId
HChats == {"dm", "grp"}

\* chat.className of the two chats
chatClassName(c) == IF c = "dm" THEN "User" ELSE "Channel"
isDM(c) == chatClassName(c) = "User"
\* chat.megagroup: "grp" is a supergroup
megagroup(c) == c = "grp"
isGroup_ChatOnly(c) == chatClassName(c) = "Chat"
isGroup(c) == chatClassName(c) \in {"Chat", "Channel"} \/ megagroup(c)

\* JavaScript truthiness of a string
Truthy(s) == s # ""
\* s.trim().length === 0
TrimEmpty(s) == s \in {"", " "}

BaseMsg(c, i) ==
  [chat |-> c, id |-> i, out |-> FALSE, fromSelf |-> FALSE, bot |-> FALSE,
   text |-> "hi", mention |-> FALSE, replyToSelf |-> FALSE, wide |-> FALSE]

\* The inbound messages: a plain text message per chat and id; in the group
\* chat the same with a mention entity naming the account (`mention`) or as
\* a reply to one of its messages, and one each with the account's
\* @username in the text, with a longer @username, and with both a mention
\* and a reply; and, per chat, one message of each kind the handler skips
\* (the account's own messages with the sender id as a number and as a
\* bigint), the group ones also with a mention of the account.
Messages ==
  { BaseMsg(c, i) : c \in HChats, i \in MsgIds }
  \cup { [BaseMsg("grp", i) EXCEPT !.mention = TRUE] : i \in MsgIds }
  \cup { [BaseMsg("grp", i) EXCEPT !.replyToSelf = TRUE] : i \in MsgIds }
  \cup { [BaseMsg("grp", 1) EXCEPT !.text = "@Me hi"],
         [BaseMsg("grp", 1) EXCEPT !.text = "@mexico"],
         [BaseMsg("grp", 1) EXCEPT !.mention = TRUE, !.replyToSelf = TRUE] }
  \cup UNION { { [BaseMsg(c, 1) EXCEPT !.out = TRUE],
                 [BaseMsg(c, 1) EXCEPT !.fromSelf = TRUE],
                 [BaseMsg(c, 1) EXCEPT !.bot = TRUE],
                 [BaseMsg(c, 1) EXCEPT !.text = ""],
                 [BaseMsg(c, 1) EXCEPT !.text = " "],
                 [BaseMsg(c, 1) EXCEPT !.fromSelf = TRUE, !.wide = TRUE] } : c \in HChats }
  \cup { [BaseMsg("grp", 1) EXCEPT !.fromSelf = TRUE, !.mention = TRUE],
         [BaseMsg("grp", 1) EXCEPT !.bot = TRUE, !.mention = TRUE],
         [BaseMsg("grp", 1) EXCEPT !.text = " ", !.mention = TRUE] }

NoMsg == [chat |-> "none", id |-> 0, out |-> FALSE, fromSelf |-> FALSE, bot |-> FALSE,
          text |-> "", mention |-> FALSE, replyToSelf |-> FALSE, wide |-> FALSE]

MkSettings(dm, dmMsg, gr, grMsg) ==
  [present |-> TRUE, autoReplyDmEnabled |-> dm, autoReplyDmMessage |-> dmMsg,
   autoReplyGroupsEnabled |-> gr, autoReplyGroupsMessage |-> grMsg]

\* The settings rows an account can have; in one the direct-message text
\* is whitespace-only while the group reply keeps the account connected.
HSettings ==
  { MkSettings(TRUE, "Away", TRUE, "Busy"),
    MkSettings(TRUE, " ", TRUE, "Busy"),
    MkSettings(TRUE, "Away", FALSE, ""),
    MkSettings(FALSE, "Away", TRUE, "Busy"),
    MkSettings(FALSE, "", FALSE, "") }

IdleTask == [pc |-> "idle", msg |-> NoMsg, outcome |-> "none", age |-> 0]

getMessageKey(chatId, messageId) == <<chatId, messageId>>

MapSet(m, k, v) == [x \in (DOMAIN m) \cup {k} |-> IF x = k THEN v ELSE m[x]]
MapDelete(m, k) == [x \in (DOMAIN m) \ {k} |-> m[x]]

\* hasRepliedToChatRecently: its result ...
hasRepliedToChatRecently(rc, chatId, t) ==
  /\ chatId \in DOMAIN rc
  /\ ~(rc[chatId] < t - COOLDOWN_MS)

\* ... and its effect on repliedChats (an expired entry is deleted).
expireOnLookup(rc, chatId, t) ==
  IF chatId \in DOMAIN rc /\ rc[chatId] < t - COOLDOWN_MS
  THEN MapDelete(rc, chatId)
  ELSE rc

markChatAsReplied_AllChats(rc, chatId, t) == [c \in HChats |-> t]

markChatAsReplied(rc, chatId, t) == MapSet(rc, chatId, t)

isProcessingMessage(pm, chatId, messageId) == getMessageKey(chatId, messageId) \in pm

\* markMessageProcessing: the add, and the timer it arms.
markMessageProcessing(pm, chatId, messageId) == pm \cup {getMessageKey(chatId, messageId)}

armCleanup_NoTimer(timers, chatId, messageId, t) == timers

armCleanup(timers, chatId, messageId, t) ==
  timers \cup {[key |-> getMessageKey(chatId, messageId), at |-> t + AUTO_CLEANUP_MS]}

clearMessageProcessing_Skipped(pm, chatId, messageId) == pm

clearMessageProcessing(pm, chatId, messageId) == pm \ {getMessageKey(chatId, messageId)}

\* A user id as the client library hands it over, a number or a bigint.
\* Ids are written as offsets from 2^53 - 2: v stands for the integer
\* 2^53 - 2 + v, so that v <= 1 is a safe integer, v = 2 is 2^53 and v = 3
\* is 2^53 + 1, which no number (double) holds.
UserIds ==
  { [rep |-> r, v |-> v] : r \in {"number", "bigint"}, v \in 0..MaxIdOffset }
    \ { [rep |-> "number", v |-> v] : v \in {x \in 3..MaxIdOffset : x % 2 = 1} }
NoId == [rep |-> "none", v |-> 0]

\* typeof id === 'bigint' ? Number(id) : id.  Number(bigint) is the nearest
\* double, ties to the even mantissa: above 2^53 the odd integers are rounded
\* to a multiple of 4 (counted from 2^53).
ToNumber(id) ==
  [rep |-> "number",
   v |-> IF id.rep = "bigint" /\ id.v > 2 /\ id.v % 2 = 1
         THEN (IF (id.v - 2) % 4 = 1 THEN id.v - 1 ELSE id.v + 1)
         ELSE id.v]

\* message.senderId.userId / message.fromId.userId of an event's message,
\* and me.id (line 498).
senderUserId(m) ==
  [rep |-> IF m.wide THEN "bigint" ELSE "number", v |-> IF m.fromSelf THEN 1 ELSE 0]
meId == [rep |-> "bigint", v |-> 1]

\* The part of a message isMessageFromSelf reads: senderId.userId and
\* fromId.userId (NoId when the property is missing), and fromId.equals:
\* "none" when fromId has no such method, "exact" when it compares the
\* integers, "throws" when the call throws.
SenderOf(senderId, fromId, equals) ==
  [senderId |-> senderId, fromId |-> fromId, equals |-> equals]

\* === on the ids as they are: a number and a bigint are never equal.
isMessageFromSelf_Strict(message, me) ==
  IF message.senderId # NoId /\ message.senderId = me THEN TRUE
  ELSE IF message.fromId = NoId THEN FALSE
  ELSE IF message.equals = "exact" THEN message.fromId.v = me.v
  ELSE message.fromId = me

\* isMessageFromSelf (lines 431-476): senderId first (lines 433-446), then
\* fromId: its equals method when there is one and it does not throw (lines
\* 452-458), else the two ids compared after the conversion to numbers.
isMessageFromSelf(message, me) ==
  IF message.senderId # NoId /\ ToNumber(message.senderId) = ToNumber(me) THEN TRUE
  ELSE IF message.fromId = NoId THEN FALSE
  ELSE IF message.equals = "exact" THEN message.fromId.v = me.v
  ELSE ToNumber(message.fromId) = ToNumber(me)

\* isSenderBot: the sender's bot flag when the sender is at hand
\* (message.sender, or client.getEntity resolved); false when getEntity
\* threw (lines 391-394, 414-417, 422-425).
isSenderBot_FailClosed(m, resolved) == ~resolved \/ m.bot

isSenderBot(m, resolved) == resolved /\ m.bot
\* me.username is "me".  new RegExp(`@${meUsername}\\b`, 'i').test(text),
\* on the texts of Messages: the case is ignored, and the name must end at
\* a word boundary.
mentionPattern(text) == text \in {"@Me hi"}

isAccountMentioned_EntityOnly(m) == m.mention

\* isAccountMentioned: an entity carrying the account's user id, or the
\* @username in the text.
isAccountMentioned(m) == m.mention \/ mentionPattern(m.text)
\* isReplyToAccount: `fetched` is whether the replied-to message was
\* obtained (getReplyMessage, or getMessages by id after it threw) and
\* getMe resolved; a transport error in any of them yields false
\* (lines 287-290, 300-303, 306-308, 319-323).
isReplyToAccount(m, fetched) == fetched /\ m.replyToSelf

Finish(t, why, age) ==
  task' = [task EXCEPT ![t] = [pc |-> "done", msg |-> NoMsg, outcome |-> why, age |-> age]]

Goto(t, pc) == task' = [task EXCEPT ![t].pc = pc]

HandlerIdle ==
  /\ repliedChats = <<>>
  /\ processingMessages = {}
  /\ cleanupTimers = {}
  /\ task = [t \in HTasks |-> IdleTask]
  /\ replyLog = <<>>
  /\ markedAt = <<>>

\* The NewMessage event is delivered: lines 481-497, up to `await client.getMe()`.
Receive(t, m) ==
  /\ task[t].pc = "idle"
  /\ IF m.out
     THEN Finish(t, "outgoing", 0)
     ELSE task' = [task EXCEPT ![t] = [pc |-> "getMe", msg |-> m, outcome |-> "none", age |-> 0]]
  /\ UNCHANGED <<repliedChats, processingMessages, cleanupTimers, settings, replyLog,
                 markedAt, tvars, pvars, svars>>

\* Lines 497-503: getMe resolved (or threw), up to `await this.isSenderBot(...)`.
AfterGetMe(t, ok) ==
  /\ task[t].pc = "getMe"
  /\ IF ~ok THEN Finish(t, "error", 0)
     ELSE IF isMessageFromSelf(SenderOf(senderUserId(task[t].msg),
                                            senderUserId(task[t].msg), "none"), meId)
     THEN Finish(t, "self", 0)
     ELSE Goto(t, "isSenderBot")
  /\ UNCHANGED <<repliedChats, processingMessages, cleanupTimers, settings, replyLog,
                 markedAt, tvars, pvars, svars>>

\* Lines 503-515, up to `await message.getChat()`.
AfterIsSenderBot(t, resolved) ==
  /\ task[t].pc = "isSenderBot"
  /\ IF isSenderBot(task[t].msg, resolved) THEN Finish(t, "bot", 0)
     ELSE IF ~Truthy(task[t].msg.text) \/ TrimEmpty(task[t].msg.text) THEN Finish(t, "empty", 0)
     ELSE Goto(t, "getChat")
  /\ UNCHANGED <<repliedChats, processingMessages, cleanupTimers, settings, replyLog,
                 markedAt, tvars, pvars, svars>>

\* Lines 515-555: getChat resolved, the in-flight check, up to
\* `await configService.getAccountSettings(accountId)`.
AfterGetChat(t, ok) ==
  /\ task[t].pc = "getChat"
  /\ IF ~ok THEN Finish(t, "error", 0)
     ELSE IF isProcessingMessage(processingMessages, task[t].msg.chat, task[t].msg.id)
     THEN Finish(t, "inflight", 0)
     ELSE Goto(t, "getSettings")
  /\ UNCHANGED <<repliedChats, processingMessages, cleanupTimers, settings, replyLog,
                 markedAt, tvars, pvars, svars>>

\* Lines 555-577 and 592-598: the settings resolved; the direct-message
\* path runs to `await client.sendMessage`, the group path to the awaits of
\* isAccountMentioned / isReplyToAccount.
AfterGetSettings(t, ok) ==
  /\ task[t].pc = "getSettings"
  /\ LET m == task[t].msg
         c == m.chat
     IN IF ~ok \/ ~settings.present
        THEN /\ Finish(t, IF ok THEN "nosettings" ELSE "error", 0)
             /\ UNCHANGED <<repliedChats, processingMessages, cleanupTimers, markedAt, svars>>
        ELSE IF isDM(c) /\ settings.autoReplyDmEnabled /\ Truthy(settings.autoReplyDmMessage)
        THEN IF hasRepliedToChatRecently(repliedChats, c, now)
             THEN /\ Finish(t, "cooldown", now - repliedChats[c])
                  /\ UNCHANGED <<repliedChats, processingMessages, cleanupTimers, markedAt, svars>>
             ELSE /\ repliedChats' = expireOnLookup(repliedChats, c, now)
                  /\ processingMessages' = markMessageProcessing(processingMessages, c, m.id)
                  /\ cleanupTimers' = armCleanup(cleanupTimers, c, m.id, now)
                  /\ markedAt' = MapSet(markedAt, getMessageKey(c, m.id), [at |-> now, by |-> t])
                  /\ Goto(t, "sendDM")
        ELSE IF isGroup(c) /\ settings.autoReplyGroupsEnabled
                /\ Truthy(settings.autoReplyGroupsMessage)
        THEN /\ Goto(t, "triggers")
             /\ UNCHANGED <<repliedChats, processingMessages, cleanupTimers, markedAt, svars>>
        ELSE /\ Finish(t, "noteligible", 0)
             /\ UNCHANGED <<repliedChats, processingMessages, cleanupTimers, markedAt, svars>>
  /\ UNCHANGED <<settings, replyLog, tvars, pvars, svars>>

\* Lines 595-612: isAccountMentioned and isReplyToAccount resolved (two
\* awaits with no shared state between them, one position), then the mark
\* and `await client.sendMessage`.
AfterTriggers(t, fetched) ==
  /\ task[t].pc = "triggers"
  /\ LET m == task[t].msg
     IN IF ~isAccountMentioned(m) /\ ~isReplyToAccount(m, fetched)
        THEN /\ Finish(t, "notrigger", 0)
             /\ UNCHANGED <<processingMessages, cleanupTimers, markedAt, svars>>
        ELSE /\ processingMessages' = markMessageProcessing(processingMessages, m.chat, m.id)
             /\ cleanupTimers' = armCleanup(cleanupTimers, m.chat, m.id, now)
             /\ markedAt' = MapSet(markedAt, getMessageKey(m.chat, m.id),
                                    [at |-> now, by |-> t])
             /\ Goto(t, "sendGroup")
  /\ UNCHANGED <<repliedChats, settings, replyLog, tvars, pvars, svars>>

\* The options object of both sends (lines 577-579, 612-614) holds
\* `message` alone: no `replyTo` is passed.
\* Neither try block calls the logging sink after the send (lines 577-586,
\* 612-616; the handler imports loggerBotService nowhere): `logged` is
\* whether logAutoReply was called for the send.
Sent(m, dm) == [chat |-> m.chat, id |-> m.id, at |-> now, dm |-> dm, by |-> 0,
                replyTo |-> 0, logged |-> FALSE]

\* Lines 577-589: the direct-message send resolved or threw; finally.
AfterSendDM(t, ok) ==
  /\ task[t].pc = "sendDM"
  /\ LET m == task[t].msg
     IN /\ repliedChats' = IF ok THEN markChatAsReplied(repliedChats, m.chat, now)
                           ELSE repliedChats
        /\ replyLog' = IF ok THEN Append(replyLog, [Sent(m, TRUE) EXCEPT !.by = t]) ELSE replyLog
        /\ processingMessages' = clearMessageProcessing(processingMessages, m.chat, m.id)
        /\ markedAt' = MapDelete(markedAt, getMessageKey(m.chat, m.id))
        /\ Finish(t, IF ok THEN "sent" ELSE "sendfailed", 0)
  /\ UNCHANGED <<cleanupTimers, settings, tvars, pvars, svars>>

\* Lines 612-622: the group send resolved or threw; finally.
AfterSendGroup(t, ok) ==
  /\ task[t].pc = "sendGroup"
  /\ LET m == task[t].msg
     IN /\ replyLog' = IF ok THEN Append(replyLog, [Sent(m, FALSE) EXCEPT !.by = t]) ELSE replyLog
        /\ processingMessages' = clearMessageProcessing(processingMessages, m.chat, m.id)
        /\ markedAt' = MapDelete(markedAt, getMessageKey(m.chat, m.id))
        /\ Finish(t, IF ok THEN "sent" ELSE "sendfailed", 0)
  /\ UNCHANGED <<repliedChats, cleanupTimers, settings, tvars, pvars, svars>>

\* Lines 204-206: an auto-cleanup timer fires.
CleanupFires(tm) ==
  /\ tm \in cleanupTimers
  /\ tm.at <= now
  /\ cleanupTimers' = cleanupTimers \ {tm}
  /\ processingMessages' = processingMessages \ {tm.key}
  /\ markedAt' = MapDelete(markedAt, tm.key)
  /\ UNCHANGED <<repliedChats, settings, task, replyLog, tvars, pvars, svars>>

\* Time passes; a pending timer fires when it is due, not later.
Tick(d) ==
  /\ nTicks < MaxTicks
  /\ \A tm \in cleanupTimers : now + d <= tm.at
  /\ now' = now + d
  /\ nTicks' = nTicks + 1
  /\ UNCHANGED <<hvars, settings, pvars, svars>>

\* ================================================================ polling
PTasks == 1..MaxPolls
IntervalIds == 1..MaxIntervals

\* The chats getDialogs lists, most recent first.
Dialogs == <<"dm", "grp">>

\* The messages the server comes to hold as a chat's last message.
PMessages ==
  { BaseMsg("dm", i) : i \in MsgIds }
  \cup { [BaseMsg("grp", 1) EXCEPT !.mention = TRUE], BaseMsg("grp", 2),
         [BaseMsg("dm", 1) EXCEPT !.out = TRUE] }

\* The polling variant's own test of a group (line 602).
pollIsGroup(c) == chatClassName(c) = "Chat" \/ megagroup(c)

\* `prior` is history: the poll saw its message while a direct-message reply
\* to the same chat, sent less than the cooldown window before, was on record.
IdlePoll == [pc |-> "idle", dialogs |-> <<>>, chat |-> "none", msg |-> NoMsg,
             prior |-> FALSE]

\* `${accountId}_${chatId}`: the polled account is account 1; the accounts
\* 2, 3, ... are the other accounts that share the table.
lastSeenKey(chatId) == <<1, chatId>>

SeqIndex(sq, k) == CHOOSE i \in DOMAIN sq : sq[i].key = k
SeqHas(sq, k) == \E i \in DOMAIN sq : sq[i].key = k

\* getLastSeenMessageId: `this.lastSeenMessages.get(key) || 0`
getLastSeenMessageId(ls, chatId) ==
  IF SeqHas(ls, lastSeenKey(chatId)) THEN ls[SeqIndex(ls, lastSeenKey(chatId))].id ELSE 0

\* Array.slice(-n)
LastN(sq, n) == IF Len(sq) <= n THEN sq ELSE SubSeq(sq, Len(sq) - n + 1, Len(sq))

\* setLastSeenMessageId: Map.set keeps the place of a key already present;
\* above 500 entries the table is cut to its last 250.
setLastSeenMessageId(ls, chatId, messageId) ==
  LET k == lastSeenKey(chatId)
      put == IF SeqHas(ls, k)
             THEN [ls EXCEPT ![SeqIndex(ls, k)].id = messageId]
             ELSE Append(ls, [key |-> k, id |-> messageId])
  IN IF Len(put) > LAST_SEEN_LIMIT THEN LastN(put, LAST_SEEN_KEEP) ELSE put

\* pollAccount of the other accounts 2..n+1 sets the last-seen id of one
\* chat each, one setLastSeenMessageId call after the other (line 625).
\* Every cut keeps a suffix of what was appended so far, so the table after
\* the n calls is a suffix of `ls` followed by the n entries; its length is
\* the length the calls leave: up to 500 the entries add up, the entry that
\* makes 501 cuts to 250, and so on every 251 entries.
setLastSeenOthers(ls, n) ==
  LET all == ls \o [i \in 1..n |-> [key |-> <<i + 1, "dm">>, id |-> 1]]
      toCut == LAST_SEEN_LIMIT + 1 - Len(ls)
      len == IF n < toCut THEN Len(ls) + n
             ELSE LAST_SEEN_KEEP + ((n - toCut) % (LAST_SEEN_LIMIT + 1 - LAST_SEEN_KEEP))
  IN LastN(all, len)

\* stopPolling (lines 809-818)
stopPollingIntervals(pa, ivs) ==
  IF "acct" \in DOMAIN pa THEN ivs \ {pa["acct"].intervalId} ELSE ivs
stopPollingAccounts(pa) == MapDelete(pa, "acct")

PollIdle ==
  /\ pollingAccounts = <<>>
  /\ activeIntervals = {}
  /\ nextIntervalId = 1
  /\ lastSeenMessages = <<>>
  /\ inbox = [c \in HChats |-> NoMsg]
  /\ pollClient = FALSE
  /\ ptask = [t \in PTasks |-> IdlePoll]
  /\ pollLog = <<>>

PFinish(t) == ptask' = [ptask EXCEPT ![t] = IdlePoll]

\* A message arrives in a chat: the server's last message of the chat is
\* replaced by one with a higher id.
Arrive(m) ==
  /\ m.id > inbox[m.chat].id
  /\ inbox' = [inbox EXCEPT ![m.chat] = m]
  /\ UNCHANGED <<pollingAccounts, activeIntervals, nextIntervalId, lastSeenMessages,
                 pollClient, ptask, pollLog, hvars, settings, tvars, svars>>

\* The polls of the other accounts see a new message in each of OtherChats
\* chats that have no entry in the table (lines 621-625 of their pollAccount;
\* the awaits between the calls touch nothing of the polled account).
OtherChatsSeen ==
  /\ \A i \in DOMAIN lastSeenMessages : lastSeenMessages[i].key[1] = 1
  /\ lastSeenMessages' = setLastSeenOthers(lastSeenMessages, OtherChats)
  /\ UNCHANGED <<pollingAccounts, activeIntervals, nextIntervalId, inbox, pollClient,
                 ptask, pollLog, hvars, settings, tvars, svars>>

\* startPolling (lines 786-804): stopPolling, setInterval, and the immediate
\* first pollAccount, which runs to `await getAccountSettings`.
StartPolling(t) ==
  /\ nextIntervalId <= MaxIntervals
  /\ ptask[t].pc = "idle"
  /\ activeIntervals' = stopPollingIntervals(pollingAccounts, activeIntervals)
                          \cup {nextIntervalId}
  /\ pollingAccounts' = MapSet(stopPollingAccounts(pollingAccounts), "acct",
                               [intervalId |-> nextIntervalId])
  /\ nextIntervalId' = nextIntervalId + 1
  /\ ptask' = [ptask EXCEPT ![t].pc = "settings"]
  /\ UNCHANGED <<lastSeenMessages, inbox, pollClient, pollLog, hvars, settings, tvars, svars>>

\* stopPolling called from outside (disconnectAccount, line 842).
StopPolling ==
  /\ "acct" \in DOMAIN pollingAccounts
  /\ activeIntervals' = stopPollingIntervals(pollingAccounts, activeIntervals)
  /\ pollingAccounts' = stopPollingAccounts(pollingAccounts)
  /\ UNCHANGED <<nextIntervalId, lastSeenMessages, inbox, pollClient, ptask, pollLog,
                 hvars, settings, tvars, svars>>

\* An interval timer fires (lines 793-797): pollAccount starts.
IntervalFires(t, iv) ==
  /\ iv \in activeIntervals
  /\ ptask[t].pc = "idle"
  /\ ptask' = [ptask EXCEPT ![t].pc = "settings"]
  /\ UNCHANGED <<pollingAccounts, activeIntervals, nextIntervalId, lastSeenMessages,
                 inbox, pollClient, pollLog, hvars, settings, tvars, svars>>

\* Lines 568-586: the settings resolved; up to getClientAndConnect (the
\* database query before it shares no state and is folded in: `rows` says
\* whether it found the account).
PAfterSettings(t, ok, rows) ==
  /\ ptask[t].pc = "settings"
  /\ LET hasDmReply == settings.autoReplyDmEnabled /\ Truthy(settings.autoReplyDmMessage)
         hasGroupReply == settings.autoReplyGroupsEnabled
                            /\ Truthy(settings.autoReplyGroupsMessage)
     IN IF ~ok \/ ~settings.present
        THEN PFinish(t) /\ UNCHANGED <<pollingAccounts, activeIntervals, svars>>
        ELSE IF ~hasDmReply /\ ~hasGroupReply
        THEN /\ activeIntervals' = stopPollingIntervals(pollingAccounts, activeIntervals)
             /\ pollingAccounts' = stopPollingAccounts(pollingAccounts)
             /\ PFinish(t)
        ELSE IF ~rows
        THEN PFinish(t) /\ UNCHANGED <<pollingAccounts, activeIntervals, svars>>
        ELSE /\ ptask' = [ptask EXCEPT ![t].pc = "connect"]
             /\ UNCHANGED <<pollingAccounts, activeIntervals, svars>>
  /\ UNCHANGED <<nextIntervalId, lastSeenMessages, inbox, pollClient, pollLog,
                 hvars, settings, tvars, svars>>

\* Lines 586-593: getClientAndConnect resolved; up to getDialogs (getMe
\* before it is folded in).
PAfterConnect(t, ok) ==
  /\ ptask[t].pc = "connect"
  /\ IF ok
     THEN /\ pollClient' = TRUE
          /\ ptask' = [ptask EXCEPT ![t].pc = "getDialogs"]
     ELSE /\ PFinish(t)
          /\ UNCHANGED pollClient
  /\ UNCHANGED <<pollingAccounts, activeIntervals, nextIntervalId, lastSeenMessages,
                 inbox, pollLog, hvars, settings, tvars, svars>>

\* The loop head (line 595): the next dialog, up to `await getMessages`
\* (dialog.getChat before it is folded in), or, after the last dialog, up
\* to `await client.disconnect()` (line 709).
NextDialog(t, ds) ==
  IF ds = <<>>
  THEN [IdlePoll EXCEPT !.pc = "disconnect"]
  ELSE [IdlePoll EXCEPT !.pc = "getMessages", !.dialogs = Tail(ds), !.chat = Head(ds)]

\* Lines 593-597: getDialogs resolved, or threw (lines 712-721).
PAfterGetDialogs(t, ok) ==
  /\ ptask[t].pc = "getDialogs"
  /\ ptask' = [ptask EXCEPT ![t] =
                 IF ok THEN NextDialog(t, Dialogs)
                 ELSE IF pollClient THEN [IdlePoll EXCEPT !.pc = "disconnect"]
                 ELSE IdlePoll]
  /\ UNCHANGED <<pollingAccounts, activeIntervals, nextIntervalId, lastSeenMessages,
                 inbox, pollClient, pollLog, hvars, settings, tvars, svars>>

\* The group triggers of lines 655-694, on the message's mention and
\* reply-to properties; `fetched` is whether getReplyMessage resolved.
pollShouldReply(m, fetched) == m.mention \/ (fetched /\ m.replyToSelf)

RepliedWithinWindow(c) ==
  /\ isDM(c)
  /\ \E k \in DOMAIN pollLog :
       k[1] = c /\ pollLog[k].dm /\ now - pollLog[k].at < COOLDOWN_MS

\* Lines 597-698: the chat's last message resolved; the last-seen test and
\* update, the filters, and into sendReplyWithDelay up to its delay (line 733).
PAfterGetMessages(t, ok, fetched) ==
  /\ ptask[t].pc = "getMessages"
  /\ LET c == ptask[t].chat
         m == inbox[c]
         hasDmReply == settings.autoReplyDmEnabled /\ Truthy(settings.autoReplyDmMessage)
         hasGroupReply == settings.autoReplyGroupsEnabled
                            /\ Truthy(settings.autoReplyGroupsMessage)
         skipType == \/ (isDM(c) /\ ~hasDmReply)
                     \/ (pollIsGroup(c) /\ ~hasGroupReply)
                     \/ (~isDM(c) /\ ~pollIsGroup(c))
         continue == ptask' = [ptask EXCEPT ![t] = NextDialog(t, ptask[t].dialogs)]
     IN IF ~ok \/ skipType \/ m = NoMsg \/ m.id <= getLastSeenMessageId(lastSeenMessages, c)
        THEN continue /\ UNCHANGED lastSeenMessages
        ELSE /\ lastSeenMessages' = setLastSeenMessageId(lastSeenMessages, c, m.id)
             /\ IF \/ m.out
                   \/ ~Truthy(m.text) \/ TrimEmpty(m.text)
                   \/ m.fromSelf
                   \/ m.bot
                   \/ (~isDM(c) /\ ~pollShouldReply(m, fetched))
                THEN continue
                ELSE ptask' = [ptask EXCEPT ![t].pc = "delay", ![t].msg = m,
                                            ![t].prior = RepliedWithinWindow(c)]
  /\ UNCHANGED <<pollingAccounts, activeIntervals, nextIntervalId, inbox, pollClient,
                 pollLog, hvars, settings, tvars, svars>>

\* Lines 733-746: the delay elapsed; `client.connect()` when the client is
\* not connected, then `await client.sendMessage`.
PAfterDelay(t, ok) ==
  /\ ptask[t].pc = "delay"
  /\ IF pollClient
     THEN /\ ptask' = [ptask EXCEPT ![t].pc = "send"]
          /\ UNCHANGED pollClient
     ELSE IF ok
     THEN /\ pollClient' = TRUE
          /\ ptask' = [ptask EXCEPT ![t].pc = "send"]
     ELSE /\ ptask' = [ptask EXCEPT ![t] = NextDialog(t, ptask[t].dialogs)]
          /\ UNCHANGED pollClient
  /\ UNCHANGED <<pollingAccounts, activeIntervals, nextIntervalId, lastSeenMessages,
                 inbox, pollLog, hvars, settings, tvars, svars>>

\* Lines 746-759: the send resolved or threw; after a send the client is
\* disconnected (the await of disconnect is folded into the return to the loop).
PAfterSend(t, ok) ==
  /\ ptask[t].pc = "send"
  /\ LET m == ptask[t].msg
         k == getMessageKey(m.chat, m.id)
     IN /\ pollLog' = IF ok
                      THEN MapSet(pollLog, k,
                                  [n |-> IF k \in DOMAIN pollLog THEN pollLog[k].n + 1 ELSE 1,
                                   at |-> now, dm |-> isDM(m.chat),
                                   prior |-> ptask[t].prior,
                                   replyTo |-> IF isDM(m.chat) THEN 0 ELSE m.id])
                      ELSE pollLog
        /\ pollClient' = IF ok THEN FALSE ELSE pollClient
        /\ ptask' = [ptask EXCEPT ![t] = NextDialog(t, ptask[t].dialogs)]
  /\ UNCHANGED <<pollingAccounts, activeIntervals, nextIntervalId, lastSeenMessages,
                 inbox, hvars, settings, tvars, svars>>

\* Lines 707-710 and 718-721: the disconnect at the end of a poll.
PAfterDisconnect(t) ==
  /\ ptask[t].pc = "disconnect"
  /\ pollClient' = FALSE
  /\ PFinish(t)
  /\ UNCHANGED <<pollingAccounts, activeIntervals, nextIntervalId, lastSeenMessages,
                 inbox, pollLog, hvars, settings, tvars, svars>>

\* ================================================================ service
\* AutoReplyRealtimeService, event-driven variant (src/unnamed/part_000,
\* lines 12-500).  The transport and accountLinker are outside the
\* repository's sources: a client is an identity with a `connected` flag
\* and a list of NewMessage handlers, of which the count is kept;
\* addEventHandler and removeEventHandler do what they are asked, and
\* addEventHandler may throw.  An account has the client object that
\* accountLinker keeps for it (accountLinker.linkedAccounts.get(id).client,
\* autoReplyConnectionManager.js line 60).
Accounts == 1..MaxAccounts
Clients == 1..MaxClients
STasks == 1..MaxSvcTasks
SvcAccounts == 1..MaxSvcAccounts
WalkTasks == 1..MaxWalkTasks

\* The client objects accountLinker may hand out for an account.
ClientsOf(a) == {c \in Clients : ((c - 1) % MaxAccounts) + 1 = a}

\* The settings rows an account goes through in the service model.
SvcSettings ==
  { [present |-> FALSE],
    MkSettings(TRUE, "Away", TRUE, "Busy"),
    MkSettings(FALSE, "", FALSE, "") }

\* connectAccount, lines 76-82
hasAutoReply(s) ==
  \/ s.autoReplyDmEnabled /\ Truthy(s.autoReplyDmMessage)
       /\ ~TrimEmpty(s.autoReplyDmMessage)
  \/ s.autoReplyGroupsEnabled /\ Truthy(s.autoReplyGroupsMessage)
       /\ ~TrimEmpty(s.autoReplyGroupsMessage)

\* The WHERE clause of refresh's query, lines 400-403
refreshSelects(s) ==
  /\ s.present
  /\ s.autoReplyDmEnabled \/ s.autoReplyGroupsEnabled
  /\ s.autoReplyDmMessage # "" \/ s.autoReplyGroupsMessage # ""

\* connectedAccounts is a Map: a sequence of entries in insertion order.
\* get(key).client, 0 when the key is absent
connectedAccountsGet(reg, a) ==
  IF SeqHas(reg, a) THEN reg[SeqIndex(reg, a)].client ELSE 0

connectedAccountsSet_Append(reg, a, c, t) ==
  Append(reg, [key |-> a, client |-> c, lastHealthCheck |-> t])

\* set: a key already present keeps its place and gets the new value,
\* { client, ..., lastHealthCheck: Date.now() }
connectedAccountsSet(reg, a, c, t) ==
  IF SeqHas(reg, a)
  THEN [reg EXCEPT ![SeqIndex(reg, a)] = [key |-> a, client |-> c, lastHealthCheck |-> t]]
  ELSE Append(reg, [key |-> a, client |-> c, lastHealthCheck |-> t])

\* performHealthCheck leaving the timestamp as it is
setLastHealthCheck_Skip(reg, a, c, t) == reg

\* `account.lastHealthCheck = now` (lines 250, 259) on the entry object the
\* loop took: it is the registered one as long as the key is registered
\* with the client the loop found in it; written to an object that is no
\* longer in the Map, the timestamp changes nothing in the registry.
setLastHealthCheck(reg, a, c, t) ==
  IF SeqHas(reg, a) /\ reg[SeqIndex(reg, a)].client = c
  THEN [reg EXCEPT ![SeqIndex(reg, a)].lastHealthCheck = t]
  ELSE reg

connectedAccountsDelete(reg, a) ==
  LET keep(e) == e.key # a IN SelectSeq(reg, keep)

\* removeAutoReply: every NewMessage handler of the client is removed.
removeAutoReply(h, c) == IF c = 0 THEN h ELSE [h EXCEPT ![c] = 0]

\* setupAutoReply attaching its handler twice
setupAutoReply_Dup(h, c, ok) ==
  IF c # 0 /\ ok THEN [h EXCEPT ![c] = 2] ELSE removeAutoReply(h, c)
\* setupAutoReply returning without having attached its handler
setupAutoReply_Silent(h, c, ok) == removeAutoReply(h, c)

\* setupAutoReply: removeAutoReply, then addEventHandler (which throws
\* when ok is false).  It has no await: the whole of it is one step.
setupAutoReply(h, c, ok) ==
  LET r == removeAutoReply(h, c)
  IN IF c # 0 /\ ok THEN [r EXCEPT ![c] = r[c] + 1] ELSE r

\* verifyHandlerRegistered, at the moment it lists the handlers
verifyHandlerRegistered(h, c) == h[c] > 0

\* disconnectAccount without its removeAutoReply call
disconnectAccountHandlers_Keep(reg, h, a) == h
\* disconnectAccount clearing the Map instead of deleting the key
disconnectAccountRegistry_Clear(reg, a) == <<>>

\* disconnectAccount (lines 182-194): on the handlers, on the registry
disconnectAccountHandlers(reg, h, a) ==
  IF SeqHas(reg, a) THEN removeAutoReply(h, connectedAccountsGet(reg, a)) ELSE h
disconnectAccountRegistry(reg, a) ==
  IF SeqHas(reg, a) THEN connectedAccountsDelete(reg, a) ELSE reg

\* A service task.  op is the entry point it runs (connectAccount called
\* from outside, performHealthCheck, the presence timer callback, refresh);
\* from the three walks connectAccount is called in the same task, pc then
\* being one of connectAccount's positions.  pos is the cursor of the
\* task's iterator over connectedAccounts.entries(): the number of entries
\* of the Map that lie before it.  calls, reuse, regAtCall, ret, hAtRet and
\* entryAtRet are history of the connectAccount call the task is in or has
\* just returned from (they are dropped when its caller resumes):
\*   calls       getClientAndConnect calls it made
\*   reuse       the client it took from the registry at line 102-104, or 0
\*   regAtCall   the registered client, if connected, when it was called
\*   ret         its return value
\*   hAtRet      the handlers its client carried when it returned
\*   entryAtRet  the client registered for the account when it returned
\* stale is history of a refresh: the settings of some account were changed
\* after its query resolved.  A refresh that has returned true keeps stale,
\* and has its return value in ret, until its caller resumes.
\* start is `const now = Date.now()` of performHealthCheck (line 220).
\* seen and failed are history of a health check or a presence walk, kept
\* until it returns:
\*   seen        the accounts whose entry its loop has taken
\*   failed      an account's processing failed in it: addEventHandler or
\*               the appear-offline call threw, or connectAccount returned false
IdleSvc ==
  [op |-> "idle", pc |-> "idle", acct |-> 0, client |-> 0, pos |-> 0, ph |-> 0,
   enabled |-> {}, row |-> 0, stale |-> FALSE, seen |-> {}, failed |-> FALSE,
   calls |-> 0, reuse |-> 0, regAtCall |-> 0, ret |-> "none", hAtRet |-> 0,
   entryAtRet |-> 0, start |-> 0]

\* No disconnectAccount call is awaited.  Of a call: the account, and the
\* client its entry held when the call was made (0 when it had no entry).
NoCall == [acct |-> 0, client |-> 0]

ConnectPcs == {"c_settings", "c_db", "c_connect", "c_offline1", "c_delay1",
               "c_verify1", "c_delay2", "c_verify2", "c_offline2"}

SvcIdle ==
  /\ connectedAccounts = <<>>
  /\ handlers = [c \in Clients |-> 0]
  /\ connected = [c \in Clients |-> FALSE]
  /\ accountSettings = [a \in Accounts |-> [present |-> FALSE]]
  /\ stask = [t \in STasks |-> IdleSvc]
  /\ offlineInterval = 0
  /\ offlineTimers = {}
  /\ healthCheckInterval = 0
  /\ healthIntervals = {}
  /\ dcall = NoCall
  /\ stopped = FALSE
  /\ revoked = {}

\* An iterator that a delete leaves where it was
IterAdjust_None(r, old, new) == r

\* Map iteration is live: deleting an entry the cursor has passed moves the
\* cursor back by one; an entry added is appended and will be visited.
IterAdjust(r, old, new) ==
  [r EXCEPT !.pos = r.pos - Cardinality({i \in DOMAIN old :
                                           i <= r.pos /\ ~SeqHas(new, old[i].key)})]

\* The step of task t leaves it as rec and the registry as reg2.
SCommit(t, rec, reg2) ==
  /\ stask' = [u \in STasks |->
                 IterAdjust(IF u = t THEN rec ELSE stask[u], connectedAccounts, reg2)]
  /\ connectedAccounts' = reg2

SGoto(t, rec) ==
  /\ stask' = [stask EXCEPT ![t] = rec]
  /\ UNCHANGED connectedAccounts

\* Smallest element of a set of indices, 0 for none
FirstOf(S) == IF S = {} THEN 0 ELSE CHOOSE i \in S : \A j \in S : i <= j

\* connectAccount is entered (line 64-69): up to `await getAccountSettings`.
ConnectEnter(r, a) ==
  LET c == connectedAccountsGet(connectedAccounts, a)
  IN [r EXCEPT !.pc = "c_settings", !.acct = a, !.client = 0, !.calls = 0, !.reuse = 0,
               !.regAtCall = IF c # 0 /\ connected[c] THEN c ELSE 0,
               !.ret = "none", !.hAtRet = 0, !.entryAtRet = 0]

\* Where the caller of connectAccount goes on once the call has returned.
AfterConnectPc(r) ==
  CASE r.op = "health" -> "h_next"
    [] r.op = "presence" -> "o_next"
    [] r.op = "refresh" /\ r.ph = 2 -> "r2_next"
    [] r.op = "refresh" -> "r3_next"
    [] r.op = "start" -> "s_next"
    [] OTHER -> "c_ret"

\* connectAccount returns val, the registry and the handlers being reg2, h2.
ConnectReturn(r, val, reg2, h2) ==
  [r EXCEPT !.ret = val,
            !.hAtRet = IF r.client = 0 THEN 0 ELSE h2[r.client],
            !.entryAtRet = connectedAccountsGet(reg2, r.acct),
            !.client = 0,
            !.pc = AfterConnectPc(r)]

\* `return false`: after `await this.disconnectAccount(accountId)` (lines
\* 71, 85, 93 and the catch block, 167-176) when cleanup is true, at once
\* (line 118) when it is false.  h is the handlers before the cleanup.
ConnectFalse(t, cleanup, h) ==
  LET r == stask[t]
      reg2 == IF cleanup
              THEN disconnectAccountRegistry(connectedAccounts, r.acct)
              ELSE connectedAccounts
      h2 == IF cleanup
            THEN disconnectAccountHandlers(connectedAccounts, h, r.acct)
            ELSE h
  IN /\ handlers' = h2
     /\ SCommit(t, ConnectReturn(r, "false", reg2, h2), reg2)

\* An entry point starts in the first task that runs nothing.
FreeSlot(t) ==
  /\ stask[t].op = "idle"
  /\ \A u \in STasks : u < t => stask[u].op # "idle"

\* connectAccount called from outside the service's own loops (the legacy
\* startPolling, the command handlers).
ConnectAccount(t, a) ==
  /\ FreeSlot(t)
  /\ SGoto(t, ConnectEnter([IdleSvc EXCEPT !.op = "connect"], a))
  /\ stopped' = FALSE
  /\ UNCHANGED <<handlers, connected, accountSettings, lvars, dcall, revoked, xvars>>

\* Lines 69-91: the settings resolved; up to the query of the user id (the
\* dynamic import and the query are one position).
CAfterSettings(t, ok) ==
  /\ stask[t].pc = "c_settings"
  /\ LET s == accountSettings[stask[t].acct]
     IN IF ~ok \/ ~s.present \/ ~hasAutoReply(s)
        THEN ConnectFalse(t, TRUE, handlers)
        ELSE /\ SGoto(t, [stask[t] EXCEPT !.pc = "c_db"])
             /\ UNCHANGED handlers
  /\ UNCHANGED <<connected, accountSettings, ovars>>

\* Lines 91-123: the query resolved; the already-connected check; up to
\* getClientAndConnect or, with a registered connected client, up to the
\* first setOfflineStatus.
CAfterDb(t, res) ==
  /\ stask[t].pc = "c_db"
  /\ LET r == stask[t]
         c == connectedAccountsGet(connectedAccounts, r.acct)
     IN IF res # "row"
        THEN ConnectFalse(t, TRUE, handlers)
        ELSE IF c # 0 /\ connected[c]
        THEN /\ handlers' = removeAutoReply(handlers, c)
             /\ SGoto(t, [r EXCEPT !.pc = "c_offline1", !.client = c, !.reuse = c])
        ELSE /\ SGoto(t, [r EXCEPT !.pc = "c_connect", !.calls = r.calls + 1])
             /\ UNCHANGED handlers
  /\ UNCHANGED <<connected, accountSettings, ovars>>

\* Lines 115-123: getClientAndConnect resolved with a connected client c,
\* with no connected client, or threw.
CAfterConnect(t, res, c) ==
  /\ stask[t].pc = "c_connect"
  /\ c \in ClientsOf(stask[t].acct)
  /\ CASE res = "client" ->
            /\ connected' = [connected EXCEPT ![c] = TRUE]
            /\ SGoto(t, [stask[t] EXCEPT !.pc = "c_offline1", !.client = c])
            /\ UNCHANGED handlers
       [] res = "none" ->
            /\ ConnectFalse(t, FALSE, handlers)
            /\ UNCHANGED connected
       [] OTHER ->
            /\ ConnectFalse(t, TRUE, handlers)
            /\ UNCHANGED connected
  /\ UNCHANGED <<accountSettings, ovars>>

\* Lines 115-120 and 167-176: getClientAndConnect failed because the
\* account's session credentials are revoked.  connectAccount handles the
\* two forms a failure of the linker can take: it is thrown (the catch
\* block runs disconnectAccount) or comes as no connected client (line 118).
CAfterConnectRevoked(t, thrown) ==
  /\ stask[t].pc = "c_connect"
  /\ revoked' = revoked \cup {stask[t].acct}
  /\ ConnectFalse(t, thrown, handlers)
  /\ UNCHANGED <<connected, accountSettings, lvars, dcall, stopped, xvars>>

\* Lines 123-129: setOfflineStatus resolved (its awaits touch nothing
\* shared); the handlers are removed; up to the 100 ms delay.
CAfterOffline1(t) ==
  /\ stask[t].pc = "c_offline1"
  /\ handlers' = removeAutoReply(handlers, stask[t].client)
  /\ SGoto(t, [stask[t] EXCEPT !.pc = "c_delay1"])
  /\ UNCHANGED <<connected, accountSettings, ovars>>

\* Lines 129-138: the delay elapsed; setupAutoReply; up to the await in
\* verifyHandlerRegistered.
CAfterDelay1(t, ok) ==
  /\ stask[t].pc = "c_delay1"
  /\ LET h == setupAutoReply(handlers, stask[t].client, ok)
     IN IF ok
        THEN /\ handlers' = h
             /\ SGoto(t, [stask[t] EXCEPT !.pc = "c_verify1"])
        ELSE ConnectFalse(t, TRUE, h)
  /\ UNCHANGED <<connected, accountSettings, ovars>>

\* Lines 138-142 and 154: the handlers are listed; up to the second
\* setOfflineStatus, or to the 200 ms delay before the retry.
CAfterVerify1(t) ==
  /\ stask[t].pc = "c_verify1"
  /\ SGoto(t, [stask[t] EXCEPT !.pc =
                 IF verifyHandlerRegistered(handlers, stask[t].client)
                 THEN "c_offline2" ELSE "c_delay2"])
  /\ UNCHANGED <<handlers, connected, accountSettings, ovars>>

\* Lines 142-146: the retry of setupAutoReply.
CAfterDelay2(t, ok) ==
  /\ stask[t].pc = "c_delay2"
  /\ LET h == setupAutoReply(handlers, stask[t].client, ok)
     IN IF ok
        THEN /\ handlers' = h
             /\ SGoto(t, [stask[t] EXCEPT !.pc = "c_verify2"])
        ELSE ConnectFalse(t, TRUE, h)
  /\ UNCHANGED <<connected, accountSettings, ovars>>

\* Lines 146-154: the handlers are listed again; a second failure throws.
CAfterVerify2(t) ==
  /\ stask[t].pc = "c_verify2"
  /\ IF verifyHandlerRegistered(handlers, stask[t].client)
     THEN /\ SGoto(t, [stask[t] EXCEPT !.pc = "c_offline2"])
          /\ UNCHANGED handlers
     ELSE ConnectFalse(t, TRUE, handlers)
  /\ UNCHANGED <<connected, accountSettings, ovars>>

\* Lines 154-166: the second setOfflineStatus resolved; the registry
\* write; `return true`.
CAfterOffline2(t) ==
  /\ stask[t].pc = "c_offline2"
  /\ LET r == stask[t]
         reg2 == connectedAccountsSet(connectedAccounts, r.acct, r.client, now)
     IN SCommit(t, ConnectReturn(r, "true", reg2, handlers), reg2)
  /\ UNCHANGED <<handlers, connected, accountSettings, ovars>>

\* The caller of connectAccount resumes.
ConnectResolved(t) ==
  /\ stask[t].pc = "c_ret"
  /\ SGoto(t, IdleSvc)
  /\ UNCHANGED <<handlers, connected, accountSettings, ovars>>

\* disconnectAccount called from outside (the legacy stopPolling, the
\* command handlers): it has no await.
DisconnectAccount(a) ==
  /\ handlers' = disconnectAccountHandlers(connectedAccounts, handlers, a)
  /\ LET reg2 == disconnectAccountRegistry(connectedAccounts, a)
     IN /\ stask' = [u \in STasks |-> IterAdjust(stask[u], connectedAccounts, reg2)]
        /\ connectedAccounts' = reg2
  /\ UNCHANGED <<connected, accountSettings, ovars>>

\* disconnectAccount called from outside, its caller awaiting it: the body
\* runs at the call (it has no await), the caller resumes in a later step.
DisconnectCall(a) ==
  /\ dcall = NoCall
  /\ dcall' = [acct |-> a, client |-> connectedAccountsGet(connectedAccounts, a)]
  /\ handlers' = disconnectAccountHandlers(connectedAccounts, handlers, a)
  /\ LET reg2 == disconnectAccountRegistry(connectedAccounts, a)
     IN /\ stask' = [u \in STasks |-> IterAdjust(stask[u], connectedAccounts, reg2)]
        /\ connectedAccounts' = reg2
  /\ UNCHANGED <<connected, accountSettings, lvars, stopped, revoked, xvars>>

DisconnectResolved ==
  /\ dcall # NoCall
  /\ dcall' = NoCall
  /\ UNCHANGED <<connectedAccounts, handlers, connected, accountSettings, stask, lvars,
                 stopped, revoked, xvars>>

\* The NewMessage handlers of a client are removed from outside the service
\* (removeAutoReply is public, config.js lines 247-260).
HandlerDetached(c) ==
  /\ handlers[c] > 0
  /\ handlers' = removeAutoReply(handlers, c)
  /\ UNCHANGED <<connectedAccounts, connected, accountSettings, stask, ovars>>

\* The account's settings are changed in the store.
SettingsChange(a, s) ==
  /\ accountSettings[a] # s
  /\ accountSettings' = [accountSettings EXCEPT ![a] = s]
  /\ stask' = [u \in STasks |->
                 IF stask[u].op = "refresh" /\ stask[u].pc # "r_query"
                 THEN [stask[u] EXCEPT !.stale = TRUE]
                 ELSE stask[u]]
  /\ revoked' = revoked \ {a}
  /\ UNCHANGED <<connectedAccounts, handlers, connected, lvars, dcall, stopped, xvars>>

\* A client loses its connection.
ClientDrops(c) ==
  /\ connected[c]
  /\ connected' = [connected EXCEPT ![c] = FALSE]
  /\ UNCHANGED <<connectedAccounts, handlers, accountSettings, stask, ovars>>

\* The task's walk or refresh is over.
WalkDone(r) == IdleSvc

\* The caller of connectAccount resumes.
Resumed(r) ==
  [r EXCEPT !.calls = 0, !.reuse = 0, !.regAtCall = 0, !.ret = "none", !.hAtRet = 0,
            !.entryAtRet = 0,
            !.failed = r.failed \/ (r.op \in {"health", "presence"} /\ r.ret = "false")]

\* needsReconnect that is never set
needsReconnect_Never(c) == FALSE

\* performHealthCheck, lines 225-231: needsReconnect
needsReconnect(c) == ~connected[c]

\* performHealthCheck, lines 222-244: the loop takes the next entry; up to
\* the await in verifyHandlerRegistered, or into connectAccount.  reg2 is
\* the registry as the step leaves it (a timestamp may have been written).
HealthStep(t, r, reg2) ==
  /\ connectedAccounts' = reg2
  /\ stask' = [stask EXCEPT ![t] =
                 IF r.pos >= Len(reg2)
                 THEN WalkDone(r)
                 ELSE LET e == reg2[r.pos + 1]
                          r1 == [r EXCEPT !.pos = r.pos + 1, !.acct = e.key,
                                          !.client = e.client,
                                          !.seen = r.seen \cup {e.key}]
                      IN IF needsReconnect(e.client)
                         THEN ConnectEnter(r1, e.key)
                         ELSE [r1 EXCEPT !.pc = "h_verify"]]
  /\ UNCHANGED handlers

\* The health-check interval fires (lines 281-283).
PerformHealthCheck(t) ==
  /\ FreeSlot(t)
  /\ healthIntervals # {}
  /\ HealthStep(t, [IdleSvc EXCEPT !.op = "health", !.start = now], connectedAccounts)
  /\ UNCHANGED <<connected, accountSettings, ovars>>

\* Lines 234-260: the handlers are listed; with the handler in place the
\* timestamp is written (line 259); a missing handler is set up again
\* (line 248), and connectAccount is called when that throws.
HAfterVerify(t, ok) ==
  /\ stask[t].pc = "h_verify"
  /\ LET r == stask[t]
     IN IF verifyHandlerRegistered(handlers, r.client)
        THEN HealthStep(t, r, setLastHealthCheck(connectedAccounts, r.acct, r.client, r.start))
        ELSE /\ handlers' = setupAutoReply(handlers, r.client, ok)
             /\ SGoto(t, IF ok THEN [r EXCEPT !.pc = "h_offline"]
                               ELSE ConnectEnter([r EXCEPT !.failed = TRUE], r.acct))
  /\ UNCHANGED <<connected, accountSettings, ovars>>

\* Lines 249-251: setOfflineStatus resolved; the timestamp is written; the
\* loop goes on.
HAfterOffline(t) ==
  /\ stask[t].pc = "h_offline"
  /\ HealthStep(t, stask[t],
                setLastHealthCheck(connectedAccounts, stask[t].acct, stask[t].client,
                                   stask[t].start))
  /\ UNCHANGED <<connected, accountSettings, ovars>>

\* Lines 244, 255: connectAccount has returned; the loop resumes.
HAfterReconnect(t) ==
  /\ stask[t].pc = "h_next"
  /\ HealthStep(t, Resumed(stask[t]), connectedAccounts)
  /\ UNCHANGED <<connected, accountSettings, ovars>>

\* setTimeout and setInterval return a handle that no pending timer has.
\* (The handle of a timer that has fired or was cleared is given out again:
\* wherever a new handle is stored, the old one is overwritten.)
FreshTimer(pending) ==
  CHOOSE i \in 1..(Cardinality(pending) + 1) :
    /\ i \notin pending
    /\ \A j \in 1..(i - 1) : j \in pending

\* scheduleNext that sets no timer
scheduleNext_None(pending) ==
  /\ offlineTimers' = pending
  /\ UNCHANGED offlineInterval

\* scheduleNext (lines 298-318): `this.offlineInterval = setTimeout(...)`,
\* given the pending presence timers.
scheduleNext(pending) ==
  /\ offlineInterval' = FreshTimer(pending)
  /\ offlineTimers' = pending \cup {FreshTimer(pending)}

\* The presence timer callback, lines 301-316: the loop takes the next
\* entry, up to setOfflineStatus or into connectAccount; at the end of the
\* Map the next timer is scheduled.  pending is the presence timers that
\* are pending when the step begins, less the one that fires in it.
OfflineStep(t, r, pending) ==
  /\ IF r.pos >= Len(connectedAccounts)
     THEN /\ SGoto(t, WalkDone(r))
          /\ scheduleNext(pending)
     ELSE LET e == connectedAccounts[r.pos + 1]
              r1 == [r EXCEPT !.pos = r.pos + 1, !.acct = e.key, !.client = e.client,
                              !.seen = r.seen \cup {e.key}]
          IN /\ SGoto(t, IF connected[e.client]
                         THEN [r1 EXCEPT !.pc = "o_offline"]
                         ELSE ConnectEnter(r1, e.key))
             /\ offlineTimers' = pending
             /\ UNCHANGED offlineInterval
  /\ UNCHANGED handlers

\* The presence timer fires (line 300).
OfflineLoopFires(t) ==
  /\ FreeSlot(t)
  /\ \E id \in offlineTimers :
       OfflineStep(t, [IdleSvc EXCEPT !.op = "presence"], offlineTimers \ {id})
  /\ UNCHANGED <<connected, accountSettings, healthCheckInterval, healthIntervals, cvars,
                 xvars>>

\* Line 304: setOfflineStatus resolved, its transport call having thrown
\* or not (it catches what is thrown, lines 49-57); the loop goes on.
OAfterOffline(t, ok) ==
  /\ stask[t].pc = "o_offline"
  /\ OfflineStep(t, [stask[t] EXCEPT !.failed = @ \/ ~ok], offlineTimers)
  /\ UNCHANGED <<connected, accountSettings, healthCheckInterval, healthIntervals, cvars,
                 xvars>>

\* Line 308: connectAccount has returned; the loop resumes.
OAfterReconnect(t) ==
  /\ stask[t].pc = "o_next"
  /\ OfflineStep(t, Resumed(stask[t]), offlineTimers)
  /\ UNCHANGED <<connected, accountSettings, healthCheckInterval, healthIntervals, cvars,
                 xvars>>

\* startOfflineStatusLoop (lines 293-322): the timer whose handle is stored
\* is cleared (clearing one that has fired does nothing), and scheduleNext.
startOfflineStatusLoop ==
  scheduleNext(offlineTimers \ {offlineInterval})

\* startHealthCheckLoop (lines 276-286): clearInterval, setInterval.
startHealthCheckLoop ==
  LET pending == healthIntervals \ {healthCheckInterval}
  IN /\ healthCheckInterval' = FreshTimer(pending)
     /\ healthIntervals' = pending \cup {FreshTimer(pending)}

\* startOfflineStatusLoop called from outside start().
StartOfflineStatusLoop ==
  /\ Cardinality(offlineTimers \ {offlineInterval}) < MaxTimers
  /\ startOfflineStatusLoop
  /\ stopped' = FALSE
  /\ UNCHANGED <<connectedAccounts, handlers, connected, accountSettings, stask,
                 healthCheckInterval, healthIntervals, dcall, revoked, xvars>>

\* The WHERE clause of start's query, lines 335-336
startSelects(s) ==
  /\ s.present
  /\ s.autoReplyDmEnabled \/ s.autoReplyGroupsEnabled

\* start, lines 344-353: the loop over the rows of the query, into
\* connectAccount for the next row; after the last row both loops are
\* started and start returns.
StartLoop(t, r) ==
  LET a == FirstOf({x \in r.enabled : x > r.row})
  IN IF a = 0
     THEN /\ Cardinality(offlineTimers \ {offlineInterval}) < MaxTimers
          /\ SGoto(t, IdleSvc)
          /\ startOfflineStatusLoop
          /\ startHealthCheckLoop
     ELSE /\ SGoto(t, ConnectEnter([r EXCEPT !.row = a], a))
          /\ UNCHANGED lvars

\* start is called (lines 327-334): up to the query (the dynamic import
\* before it is folded in).
Start(t) ==
  /\ FreeSlot(t)
  /\ SGoto(t, [IdleSvc EXCEPT !.op = "start", !.pc = "s_query"])
  /\ stopped' = FALSE
  /\ UNCHANGED <<handlers, connected, accountSettings, lvars, dcall, revoked, xvars>>

\* Lines 334-347: the query resolved, or threw (the catch block, lines
\* 355-357: neither loop is started).
SAfterQuery(t, ok) ==
  /\ stask[t].pc = "s_query"
  /\ IF ok
     THEN StartLoop(t, [stask[t] EXCEPT !.row = 0, !.enabled =
                          {a \in Accounts : startSelects(accountSettings[a])}])
     ELSE SGoto(t, IdleSvc) /\ UNCHANGED lvars
  /\ UNCHANGED <<handlers, connected, accountSettings, cvars, xvars>>

\* Line 345: connectAccount has returned; the loop resumes.
SAfterConnect(t) ==
  /\ stask[t].pc = "s_next"
  /\ StartLoop(t, Resumed(stask[t]))
  /\ UNCHANGED <<handlers, connected, accountSettings, cvars, xvars>>

\* stop (lines 365-387): it has no await.  Both stored handles are cleared;
\* disconnectAccount is called for every entry (its body runs at the call,
\* nothing awaits it); the Map is cleared.
stopHandlers(reg, h) ==
  [c \in Clients |-> IF \E i \in DOMAIN reg : reg[i].client = c THEN 0 ELSE h[c]]

Stop ==
  /\ offlineTimers' = offlineTimers \ {offlineInterval}
  /\ offlineInterval' = 0
  /\ healthIntervals' = healthIntervals \ {healthCheckInterval}
  /\ healthCheckInterval' = 0
  /\ handlers' = stopHandlers(connectedAccounts, handlers)
  /\ stask' = [u \in STasks |-> IterAdjust(stask[u], connectedAccounts, <<>>)]
  /\ connectedAccounts' = <<>>
  /\ stopped' = \A t \in STasks : stask[t].op # "start"
  /\ UNCHANGED <<connected, accountSettings, dcall, revoked, xvars>>

\* refresh returns val (lines 481, 484).
RefreshReturn(r, val) ==
  [IdleSvc EXCEPT !.op = "refresh", !.pc = "r_ret", !.ret = val,
                  !.stale = (val = "true" /\ r.stale)]

\* refresh, lines 472-481: the third loop, over the rows of the query;
\* into connectAccount for the first row not registered, else `return true`.
RefreshLoop3(t, r) ==
  /\ LET a == FirstOf({x \in r.enabled :
                         x > r.row /\ ~SeqHas(connectedAccounts, x)})
     IN SGoto(t, IF a = 0 THEN RefreshReturn(r, "true")
                          ELSE ConnectEnter([r EXCEPT !.row = a], a))
  /\ UNCHANGED handlers

\* refresh, lines 417-423: the second loop takes the next enabled entry; up
\* to the await in verifyHandlerRegistered, or into connectAccount; at the
\* end of the Map the third loop starts.
RefreshLoop2(t, r) ==
  LET i == FirstOf({x \in DOMAIN connectedAccounts :
                      x > r.pos /\ connectedAccounts[x].key \in r.enabled})
  IN IF i = 0
     THEN RefreshLoop3(t, [r EXCEPT !.ph = 3, !.pos = 0, !.row = 0])
     ELSE LET e == connectedAccounts[i]
              r1 == [r EXCEPT !.pos = i, !.acct = e.key, !.client = e.client]
          IN /\ SGoto(t, IF ~connected[e.client]
                         THEN ConnectEnter(r1, e.key)
                         ELSE [r1 EXCEPT !.pc = "r2_verify"])
             /\ UNCHANGED handlers

\* refresh, lines 409-414: the first loop takes the next entry that is not
\* enabled and disconnects it; at the end of the Map the second loop starts.
RefreshLoop1(t, r) ==
  LET i == FirstOf({x \in DOMAIN connectedAccounts :
                      x > r.pos /\ connectedAccounts[x].key \notin r.enabled})
  IN IF i = 0
     THEN RefreshLoop2(t, [r EXCEPT !.ph = 2, !.pos = 0])
     ELSE LET a == connectedAccounts[i].key
          IN /\ handlers' = disconnectAccountHandlers(connectedAccounts, handlers, a)
             /\ SCommit(t, [r EXCEPT !.pos = i, !.acct = a, !.pc = "r1_wait"],
                        disconnectAccountRegistry(connectedAccounts, a))

\* refresh is called (lines 394-399): up to the query.
Refresh(t) ==
  /\ FreeSlot(t)
  /\ SGoto(t, [IdleSvc EXCEPT !.op = "refresh", !.pc = "r_query"])
  /\ stopped' = FALSE
  /\ UNCHANGED <<handlers, connected, accountSettings, lvars, dcall, revoked, xvars>>

\* Lines 399-409: the query resolved (or threw: `return false`).
RAfterQuery(t, ok) ==
  /\ stask[t].pc = "r_query"
  /\ IF ok
     THEN RefreshLoop1(t, [stask[t] EXCEPT !.ph = 1, !.enabled =
                             {a \in Accounts : refreshSelects(accountSettings[a])}])
     ELSE /\ SGoto(t, RefreshReturn(stask[t], "false"))
          /\ UNCHANGED handlers
  /\ UNCHANGED <<connected, accountSettings, ovars>>

\* The caller of refresh resumes.
RefreshResolved(t) ==
  /\ stask[t].pc = "r_ret"
  /\ SGoto(t, IdleSvc)
  /\ UNCHANGED <<handlers, connected, accountSettings, ovars>>

\* Line 412: `await this.disconnectAccount(...)` resolved.
R1AfterDisconnect(t) ==
  /\ stask[t].pc = "r1_wait"
  /\ RefreshLoop1(t, stask[t])
  /\ UNCHANGED <<connected, accountSettings, ovars>>

\* Lines 426-455: the handlers are listed; a missing handler is removed and
\* set up again (lines 432-437), connectAccount being called when that
\* throws (line 451).
R2AfterVerify(t, ok) ==
  /\ stask[t].pc = "r2_verify"
  /\ LET r == stask[t]
     IN IF verifyHandlerRegistered(handlers, r.client)
        THEN /\ SGoto(t, [r EXCEPT !.pc = "r2_offline"])
             /\ UNCHANGED handlers
        ELSE /\ handlers' = setupAutoReply(removeAutoReply(handlers, r.client),
                                           r.client, ok)
             /\ SGoto(t, IF ok THEN [r EXCEPT !.pc = "r2_verify2"]
                               ELSE ConnectEnter(r, r.acct))
  /\ UNCHANGED <<connected, accountSettings, ovars>>

\* Lines 440-451: the handlers are listed after the registration.
R2AfterVerify2(t) ==
  /\ stask[t].pc = "r2_verify2"
  /\ LET r == stask[t]
     IN SGoto(t, IF verifyHandlerRegistered(handlers, r.client)
                 THEN [r EXCEPT !.pc = "r2_offline"]
                 ELSE ConnectEnter(r, r.acct))
  /\ UNCHANGED <<handlers, connected, accountSettings, ovars>>

\* Lines 445-446, 455-456: setOfflineStatus resolved; the loop goes on.
R2AfterOffline(t) ==
  /\ stask[t].pc = "r2_offline"
  /\ RefreshLoop2(t, stask[t])
  /\ UNCHANGED <<connected, accountSettings, ovars>>

\* Lines 423, 451: connectAccount has returned; the second loop resumes.
R2AfterReconnect(t) ==
  /\ stask[t].pc = "r2_next"
  /\ RefreshLoop2(t, Resumed(stask[t]))
  /\ UNCHANGED <<connected, accountSettings, ovars>>

\* Line 476: connectAccount has returned; the third loop resumes.
R3AfterConnect(t) ==
  /\ stask[t].pc = "r3_next"
  /\ RefreshLoop3(t, Resumed(stask[t]))
  /\ UNCHANGED <<connected, accountSettings, ovars>>

\* ================================================= polling, several accounts
\* startPolling, stopPolling, connectAccount, disconnectAccount, refresh and
\* stop of the polling variant (src/unnamed/part_000, lines 786-915) over the
\* accounts 1..MaxAccounts.  An interval handle is kept with the account its
\* callback polls; pollingAccounts maps an account to { intervalId }.
QTasks == 1..MaxQTasks
QIdle == [op |-> "idle", pc |-> "idle", acct |-> 0, rows |-> {}, row |-> 0]

\* What startPolling and stopPolling work on: the Map, the timers, and the
\* polls in flight.
QState(pa, ivs, polls) == [pa |-> pa, ivs |-> ivs, polls |-> polls]

\* stopPolling that forgets clearInterval
stopPolling_NoClear(q, a) == [q EXCEPT !.pa = MapDelete(q.pa, a)]

\* stopPolling (lines 809-818)
stopPolling(q, a) ==
  IF a \in DOMAIN q.pa
  THEN [q EXCEPT !.ivs = q.ivs \ {q.pa[a].intervalId}, !.pa = MapDelete(q.pa, a)]
  ELSE q

\* startPolling that does not stop the polling there is
startPolling_NoStop(q, a) ==
  LET h == [acct |-> a, id |-> FreshTimer({x.id : x \in q.ivs})]
  IN [pa |-> MapSet(q.pa, a, [intervalId |-> h]),
      ivs |-> q.ivs \cup {h},
      polls |-> q.polls \cup {a}]

\* startPolling (lines 786-804): stopPolling, setInterval, the Map entry,
\* and the first pollAccount, which runs to `await getAccountSettings`.
startPolling(q, a) ==
  LET q1 == stopPolling(q, a)
      h == [acct |-> a, id |-> FreshTimer({x.id : x \in q1.ivs})]
  IN [pa |-> MapSet(q1.pa, a, [intervalId |-> h]),
      ivs |-> q1.ivs \cup {h},
      polls |-> q1.polls \cup {a}]

\* stopPolling for the accounts of S, in the order of the ids.
RECURSIVE stopPollingAll(_, _)
stopPollingAll(q, S) ==
  IF S = {} THEN q
  ELSE LET a == CHOOSE x \in S : \A y \in S : x <= y
       IN stopPollingAll(stopPolling(q, a), S \ {a})

\* The test of connectAccount (lines 826-827) and of pollAccount (570-571)
pollHasAutoReply(s) ==
  \/ s.autoReplyDmEnabled /\ Truthy(s.autoReplyDmMessage)
  \/ s.autoReplyGroupsEnabled /\ Truthy(s.autoReplyGroupsMessage)

QNow == QState(pollingAccounts, activeIntervals, qpolls)
QCommit(q) ==
  /\ pollingAccounts' = q.pa
  /\ activeIntervals' = q.ivs
  /\ qpolls' = q.polls
qrest == <<hvars, settings, tvars, nextIntervalId, lastSeenMessages, inbox, pollClient,
           ptask, pollLog, connectedAccounts, handlers, connected, stask, lvars,
           dcall, revoked, ucall, rvars, gvars>>

\* startPolling called from outside.
QStartPolling(a) ==
  /\ QCommit(startPolling(QNow, a))
  /\ stopped' = FALSE
  /\ UNCHANGED <<qtask, accountSettings, qrest>>

\* stopPolling / disconnectAccount (lines 838-840) called from outside.
QDisconnectAccount(a) ==
  /\ a \in DOMAIN pollingAccounts
  /\ QCommit(stopPolling(QNow, a))
  /\ UNCHANGED <<qtask, stopped, accountSettings, qrest>>

\* An interval fires (lines 793-797): pollAccount runs to its first await.
QIntervalFires(h) ==
  /\ h \in activeIntervals
  /\ h.acct \notin qpolls
  /\ qpolls' = qpolls \cup {h.acct}
  /\ UNCHANGED <<pollingAccounts, activeIntervals, qtask, stopped, accountSettings, qrest>>

\* pollAccount, lines 568-575: the settings resolved (or threw); without a
\* reply configured the account's polling is stopped.  What the poll does
\* after that touches neither the Map nor the timers.
QPollSettled(a, ok) ==
  /\ a \in qpolls
  /\ LET st == accountSettings[a]
         q == [QNow EXCEPT !.polls = qpolls \ {a}]
     IN QCommit(IF ok /\ st.present /\ ~pollHasAutoReply(st) THEN stopPolling(q, a) ELSE q)
  /\ UNCHANGED <<qtask, stopped, accountSettings, qrest>>

\* connectAccount is called (lines 823-824), up to `await getAccountSettings`.
QConnectAccount(t, a) ==
  /\ qtask[t].op = "idle"
  /\ qtask' = [qtask EXCEPT ![t] = [QIdle EXCEPT !.op = "connect", !.pc = "settings",
                                                !.acct = a]]
  /\ stopped' = FALSE
  /\ UNCHANGED <<pollingAccounts, activeIntervals, qpolls, accountSettings, qrest>>

\* Lines 824-835: the settings resolved (or threw); stopPolling without a
\* reply configured, else startPolling (the await of its promise is folded
\* into the return).
QCAfterSettings(t, ok) ==
  /\ qtask[t].pc = "settings"
  /\ LET a == qtask[t].acct
         st == accountSettings[a]
     IN QCommit(IF ~ok \/ ~st.present THEN QNow
                ELSE IF ~pollHasAutoReply(st) THEN stopPolling(QNow, a)
                ELSE startPolling(QNow, a))
  /\ qtask' = [qtask EXCEPT ![t] = QIdle]
  /\ UNCHANGED <<stopped, accountSettings, qrest>>

\* stop (lines 876-884): it has no await.
QStop ==
  /\ QCommit(stopPollingAll(QNow, DOMAIN pollingAccounts))
  /\ stopped' = TRUE
  /\ UNCHANGED <<qtask, accountSettings, qrest>>

\* refresh, lines 908-912: the loop over the rows goes on from row r.row; the
\* next row that has no Map entry is started, and the loop is suspended at
\* `await this.startPolling`; after the last row refresh returns.
QRefreshLoop(t, r, q) ==
  LET todo == {a \in r.rows : a > r.row /\ a \notin DOMAIN q.pa}
  IN IF todo = {}
     THEN /\ QCommit(q)
          /\ qtask' = [qtask EXCEPT ![t] = QIdle]
     ELSE LET a == CHOOSE x \in todo : \A y \in todo : x <= y
          IN /\ QCommit(startPolling(q, a))
             /\ qtask' = [qtask EXCEPT ![t] = [r EXCEPT !.pc = "r_next", !.row = a]]

\* refresh is called (lines 892-895), up to the query.
QRefresh(t) ==
  /\ qtask[t].op = "idle"
  /\ qtask' = [qtask EXCEPT ![t] = [QIdle EXCEPT !.op = "refresh", !.pc = "r_query"]]
  /\ stopped' = FALSE
  /\ UNCHANGED <<pollingAccounts, activeIntervals, qpolls, accountSettings, qrest>>

\* Lines 895-912: the query resolved (or threw: the catch block); the
\* accounts no longer selected are stopped, then the loop over the rows.
QRAfterQuery(t, ok) ==
  /\ qtask[t].pc = "r_query"
  /\ IF ok
     THEN LET rows == {a \in Accounts : startSelects(accountSettings[a])}
          IN QRefreshLoop(t, [qtask[t] EXCEPT !.rows = rows],
                          stopPollingAll(QNow, DOMAIN pollingAccounts \ rows))
     ELSE /\ qtask' = [qtask EXCEPT ![t] = QIdle]
          /\ UNCHANGED <<pollingAccounts, activeIntervals, qpolls>>
  /\ UNCHANGED <<stopped, accountSettings, qrest>>

\* Line 910: startPolling has returned; the loop resumes.
QRAfterStart(t) ==
  /\ qtask[t].pc = "r_next"
  /\ QRefreshLoop(t, qtask[t], QNow)
  /\ UNCHANGED <<stopped, accountSettings, qrest>>

\* ======================================================== LoggerBotService
\* sendLog and the /start handler (src/src/services/loggerBotService.js,
\* lines 65-141 and 197-249), with the bot configured and initialized.  The
\* bot transport (bot.sendMessage, through safeBotApiCall in sendLog) is
\* outside: a call resolves, resolves with nothing, or throws.
LogUsers == 1..MaxLogUsers
GTasks == 1..MaxLogTasks

\* `ret` is what the call that ran last in the slot returned.
GIdle(ret) == [op |-> "idle", pc |-> "idle", user |-> 0, seen |-> FALSE, ret |-> ret]

\* sendLog that leaves out the test of blockedUsers
sendLogPasses_NoBlockedTest(hasStarted, blocked, userId) == hasStarted

\* sendLog, lines 203-212: the two tests before the transport is called.
sendLogPasses(hasStarted, blocked, userId) == hasStarted /\ userId \notin blocked

\* isBotBlocked (lines 229-233, 99-103): the error of a send that names a
\* blocked bot.
isBotBlocked(res) == res = "blocked"

\* The variables of the handler, the pollers and the services.
nonuvars == <<hvars, settings, tvars, pvars, connectedAccounts, handlers, connected,
              accountSettings, stask, lvars, cvars>>

GReturn(t, ret) == gtask' = [gtask EXCEPT ![t] = GIdle(ret)]
grest == <<nonuvars, ucall, rvars, qvars>>

\* sendLog is called (lines 197-204), up to the query of hasLoggerBotStarted.
SendLog(t, u) ==
  /\ gtask[t].op = "idle"
  /\ gtask' = [gtask EXCEPT ![t] = [op |-> "sendLog", pc |-> "hasStarted", user |-> u,
                                    seen |-> FALSE, ret |-> "none"]]
  /\ UNCHANGED <<blockedUsers, loggerStarted, grest>>

\* hasLoggerBotStarted, lines 162-178: the database runs the SELECT, or the
\* query throws and the catch block returns false.
GQueryRuns(t, ok) ==
  /\ gtask[t].pc = "hasStarted"
  /\ gtask' = [gtask EXCEPT ![t].pc = "hasStartedDone",
                            ![t].seen = ok /\ loggerStarted[gtask[t].user]]
  /\ UNCHANGED <<blockedUsers, loggerStarted, grest>>

\* Lines 204-220: sendLog resumes with the answer; the two tests, and the
\* call of the transport.
GAfterHasStarted(t) ==
  /\ gtask[t].pc = "hasStartedDone"
  /\ LET u == gtask[t].user
         hasStarted == gtask[t].seen
     IN IF sendLogPasses(hasStarted, blockedUsers, u)
        THEN gtask' = [gtask EXCEPT ![t].pc = "send"]
        ELSE GReturn(t, IF ~hasStarted THEN "not started" ELSE "blocked")
  /\ UNCHANGED <<blockedUsers, loggerStarted, grest>>

\* Lines 222-244: the transport call resolved ("ok"), resolved with nothing
\* ("nothing"), or threw ("blocked", "error"); a user whose send failed or
\* was rejected is added to blockedUsers, up to `await markLoggerBotStarted`.
GAfterSend(t, res) ==
  /\ gtask[t].pc = "send"
  /\ IF res = "nothing" \/ isBotBlocked(res)
     THEN /\ blockedUsers' = blockedUsers \cup {gtask[t].user}
          /\ gtask' = [gtask EXCEPT ![t].pc = "mark0"]
     ELSE /\ GReturn(t, IF res = "ok" THEN "sent" ELSE "error")
          /\ UNCHANGED blockedUsers
  /\ UNCHANGED <<loggerStarted, grest>>

\* markLoggerBotStarted, lines 183-192: the database runs the UPDATE, or the
\* query throws and the error is logged and swallowed.
GUpdateRuns(t, ok) ==
  /\ gtask[t].pc \in {"mark0", "mark1"}
  /\ loggerStarted' = IF ok THEN [loggerStarted EXCEPT ![gtask[t].user] = (gtask[t].pc = "mark1")]
                       ELSE loggerStarted
  /\ gtask' = [gtask EXCEPT ![t].pc = IF gtask[t].pc = "mark0" THEN "mark0Done" ELSE "mark1Done"]
  /\ UNCHANGED <<blockedUsers, grest>>

\* Lines 228-229, 242-243, 109-112: markLoggerBotStarted(userId, false)
\* returned, and so does its caller.
GAfterMark(t) ==
  /\ gtask[t].pc = "mark0Done"
  /\ GReturn(t, "failed")
  /\ UNCHANGED <<blockedUsers, loggerStarted, grest>>

\* A /start message of user u arrives (lines 67-77), up to
\* `await markLoggerBotStarted(userId, true)`.
OnStart(t, u) ==
  /\ gtask[t].op = "idle"
  /\ gtask' = [gtask EXCEPT ![t] = [op |-> "start", pc |-> "mark1", user |-> u,
                                    seen |-> FALSE, ret |-> "none"]]
  /\ UNCHANGED <<blockedUsers, loggerStarted, grest>>

\* Lines 79-94: markLoggerBotStarted(userId, true) returned; the user is
\* taken off blockedUsers, and the welcome message is sent.
TAfterMark(t) ==
  /\ gtask[t].pc = "mark1Done"
  /\ blockedUsers' = blockedUsers \ {gtask[t].user}
  /\ gtask' = [gtask EXCEPT ![t].pc = "welcome"]
  /\ UNCHANGED <<loggerStarted, grest>>

\* Lines 94-116: the welcome message was sent, or the send threw.
TAfterWelcome(t, res) ==
  /\ gtask[t].pc = "welcome"
  /\ IF isBotBlocked(res)
     THEN /\ blockedUsers' = blockedUsers \cup {gtask[t].user}
          /\ gtask' = [gtask EXCEPT ![t].pc = "mark0"]
     ELSE /\ GReturn(t, IF res = "ok" THEN "started" ELSE "error")
          /\ UNCHANGED blockedUsers
  /\ UNCHANGED <<loggerStarted, grest>>

\* ============================================================== functions
\* The functions without state are called one at a time; ucall holds the
\* last call: the function, its arguments and what it returned.
NoUCall == [fn |-> "none", in |-> <<>>, out |-> <<>>]
UtilIdle ==
  /\ ucall = NoUCall
  /\ attempts = <<>>
  /\ rateHist = <<>>
  /\ qpolls = {}
  /\ qtask = [t \in QTasks |-> QIdle]
  /\ blockedUsers = {}
  /\ loggerStarted = [u \in LogUsers |-> FALSE]
  /\ gtask = [t \in GTasks |-> GIdle("none")]
UCall(fn, in, out) == [fn |-> fn, in |-> in, out |-> out]

\* The messages and ids isMessageFromSelf is called with: the sender's id
\* in senderId, in fromId or in both.
SelfCheckInputs ==
  { <<SenderOf(IF a THEN s ELSE NoId, IF b THEN s ELSE NoId, eq), me>> :
      s \in UserIds, me \in UserIds, a \in BOOLEAN, b \in BOOLEAN,
      eq \in {"none", "exact", "throws"} }

CallIsMessageFromSelf(in) ==
  /\ ucall' = UCall("isMessageFromSelf", in, isMessageFromSelf(in[1], in[2]))
  /\ UNCHANGED <<nonuvars, rvars, qvars, gvars>>

\* ------------------------------------------------ getRandomOfflineInterval
\* The draws of Math.random, as numerators k of k / RandDen: the draws next
\* to 0, the draws next to 1, and draws spread over the interval.
RandomDraws ==
  (0..(RandEdge - 1)) \cup {RandDen - i : i \in 1..RandEdge}
    \cup {RandStep * i : i \in 0..((RandDen \div RandStep) - 1)}

\* getRandomOfflineInterval with Math.round for Math.floor
getRandomOfflineInterval_Round(k) ==
  ((2 * k * (OFFLINE_INTERVAL_MAX - OFFLINE_INTERVAL_MIN + 1) + RandDen) \div (2 * RandDen))
    + OFFLINE_INTERVAL_MIN

\* getRandomOfflineInterval (line 200), for the draw k / RandDen:
\* Math.floor(draw * (MAX - MIN + 1)) + MIN.
getRandomOfflineInterval(k) ==
  ((k * (OFFLINE_INTERVAL_MAX - OFFLINE_INTERVAL_MIN + 1)) \div RandDen)
    + OFFLINE_INTERVAL_MIN

\* scheduleNext, lines 298-300: the delay of the next presence cycle is
\* computed from a new draw, and the timer is set with it.  `in` keeps the
\* draw and the delay of the cycle before (0 for the first cycle).
ScheduleNextDelay(k) ==
  /\ ucall' = UCall("scheduleNext",
                    [draw |-> k,
                     prev |-> IF ucall.fn = "scheduleNext" THEN ucall.out ELSE 0],
                    getRandomOfflineInterval(k))
  /\ UNCHANGED <<nonuvars, rvars, qvars, gvars>>

\* ---------------------------------------------------------- sanitizeLimit
\* A limit passed to sanitizeLimit: a string or a number, here a multiple of
\* one half; v2 is twice its value, and nan marks a string with no leading
\* number ('abc'), or NaN.
LimitHalves == {-3, -2, -1, 0, 1, 2, 3, 100, 198, 199, 200, 202, 2000, 2002}
LimitInputs ==
  {[type |-> ty, nan |-> FALSE, v2 |-> v] : ty \in {"string", "number"}, v \in LimitHalves}
    \cup {[type |-> ty, nan |-> TRUE, v2 |-> 0] : ty \in {"string", "number"}}
MaxLimits == {1, 50, 99, 100, 101, 1000}

\* parseInt(limit, 10): the digits before the decimal point, with their sign.
parseInt(limit) ==
  [type |-> "number", nan |-> limit.nan,
   v2 |-> IF limit.v2 >= 0 THEN 2 * (limit.v2 \div 2) ELSE -(2 * ((-limit.v2) \div 2))]

Min(a, b) == IF a <= b THEN a ELSE b

\* sanitizeLimit, lines 127-136.
sanitizeLimit(limit, maxLimit) ==
  LET limitNum == IF limit.type = "string" THEN parseInt(limit) ELSE limit
  IN IF limitNum.nan \/ limitNum.v2 <= 0 \/ limitNum.v2 % 2 # 0
     THEN DEFAULT_LIMIT
     ELSE Min(limitNum.v2 \div 2, maxLimit)

CallSanitizeLimit(limit, maxLimit) ==
  /\ ucall' = UCall("sanitizeLimit", <<limit, maxLimit>>, sanitizeLimit(limit, maxLimit))
  /\ UNCHANGED <<nonuvars, rvars, qvars, gvars>>

\* ------------------------------------------------------------ RateLimiter
RateUsers == 1..MaxRateUsers
RateLimits == 0..MaxAttempts
RateTimeSteps == {RATE_WINDOW_MS \div 2}

\* checkRateLimit (part_001 lines 243-268) at time t: the Map it leaves and
\* the object it returns.
checkRateLimit(att, userId, maxAttempts, windowMs, t) ==
  IF userId \notin DOMAIN att \/ t > att[userId].resetTime
  THEN [attempts |-> MapSet(att, userId, [count |-> 1, resetTime |-> t + windowMs]),
        ret |-> [allowed |-> TRUE, remaining |-> maxAttempts - 1, resetIn |-> windowMs]]
  ELSE IF att[userId].count >= maxAttempts
  THEN [attempts |-> att,
        ret |-> [allowed |-> FALSE, remaining |-> 0,
                 resetIn |-> IF att[userId].resetTime - t > 0
                             THEN att[userId].resetTime - t ELSE 0]]
  ELSE [attempts |-> [att EXCEPT ![userId].count = @ + 1],
        ret |-> [allowed |-> TRUE, remaining |-> maxAttempts - (att[userId].count + 1),
                 resetIn |-> att[userId].resetTime - t]]

\* A call of checkRateLimit; the window of the user is a new one when the
\* user has no entry or the entry's resetTime has passed.
CheckRateLimit(userId, maxAttempts) ==
  LET r == checkRateLimit(attempts, userId, maxAttempts, RATE_WINDOW_MS, now)
      opens == userId \notin DOMAIN attempts \/ now > attempts[userId].resetTime
      n == IF r.ret.allowed THEN 1 ELSE 0
  IN /\ attempts' = r.attempts
     /\ ucall' = UCall("checkRateLimit", <<userId, maxAttempts>>, r.ret)
     /\ rateHist' = MapSet(rateHist, userId,
                           IF opens
                           THEN [max |-> maxAttempts, allowed |-> n, mixed |-> FALSE]
                           ELSE [max |-> rateHist[userId].max,
                                 allowed |-> rateHist[userId].allowed + n,
                                 mixed |-> rateHist[userId].mixed
                                             \/ maxAttempts # rateHist[userId].max])
     /\ UNCHANGED <<nonuvars, qvars, gvars>>

\* ========================================================= specifications
SettingsRows == HSettings \cup {[present |-> FALSE]}

HInit ==
  /\ HandlerIdle
  /\ PollIdle
  /\ SvcIdle
  /\ settings \in SettingsRows
  /\ now = 0
  /\ nTicks = 0
  /\ UtilIdle

HNext ==
  \/ \E t \in HTasks, m \in Messages : Receive(t, m)
  \/ \E t \in HTasks, ok \in BOOLEAN : AfterGetMe(t, ok)
  \/ \E t \in HTasks, resolved \in BOOLEAN : AfterIsSenderBot(t, resolved)
  \/ \E t \in HTasks, ok \in BOOLEAN : AfterGetChat(t, ok)
  \/ \E t \in HTasks, ok \in BOOLEAN : AfterGetSettings(t, ok)
  \/ \E t \in HTasks, fetched \in BOOLEAN : AfterTriggers(t, fetched)
  \/ \E t \in HTasks, ok \in BOOLEAN : AfterSendDM(t, ok)
  \/ \E t \in HTasks, ok \in BOOLEAN : AfterSendGroup(t, ok)
  \/ \E tm \in cleanupTimers : CleanupFires(tm)
  \/ \E d \in TimeSteps : Tick(d)

SpecHandler == HInit /\ [][HNext]_vars

\* The polling variant tests the reply texts for truthiness alone (lines
\* 570-571): a whitespace-only text is to it a text like any other.
PollSettingsRows == SettingsRows \ {MkSettings(TRUE, " ", TRUE, "Busy")}

PInit ==
  /\ HandlerIdle
  /\ PollIdle
  /\ SvcIdle
  /\ settings \in PollSettingsRows
  /\ now = 0
  /\ nTicks = 0
  /\ UtilIdle

PNext ==
  \/ \E m \in PMessages : Arrive(m)
  \/ \E t \in PTasks : StartPolling(t)
  \/ StopPolling
  \/ \E t \in PTasks, iv \in IntervalIds : IntervalFires(t, iv)
  \/ \E t \in PTasks, ok \in BOOLEAN, rows \in BOOLEAN : PAfterSettings(t, ok, rows)
  \/ \E t \in PTasks, ok \in BOOLEAN : PAfterConnect(t, ok)
  \/ \E t \in PTasks, ok \in BOOLEAN : PAfterGetDialogs(t, ok)
  \/ \E t \in PTasks, ok \in BOOLEAN, fetched \in BOOLEAN : PAfterGetMessages(t, ok, fetched)
  \/ \E t \in PTasks, ok \in BOOLEAN : PAfterDelay(t, ok)
  \/ \E t \in PTasks, ok \in BOOLEAN : PAfterSend(t, ok)
  \/ \E t \in PTasks : PAfterDisconnect(t)
  \/ \E d \in PollTimeSteps : Tick(d)

SpecPoll == PInit /\ [][PNext]_vars

\* The polling variant with the table shared: one poll of the account at a
\* time, both replies configured, and the other accounts' polls filling
\* the last-seen table.
SeenTasks == {1}

QInit ==
  /\ HandlerIdle
  /\ PollIdle
  /\ SvcIdle
  /\ settings = MkSettings(TRUE, "Away", TRUE, "Busy")
  /\ now = 0
  /\ nTicks = 0
  /\ UtilIdle

QNext ==
  \/ \E m \in PMessages : Arrive(m)
  \/ OtherChatsSeen
  \/ \E t \in SeenTasks : StartPolling(t)
  \/ \E t \in SeenTasks, iv \in IntervalIds : IntervalFires(t, iv)
  \/ \E t \in SeenTasks, ok \in BOOLEAN, rows \in BOOLEAN : PAfterSettings(t, ok, rows)
  \/ \E t \in SeenTasks, ok \in BOOLEAN : PAfterConnect(t, ok)
  \/ \E t \in SeenTasks, ok \in BOOLEAN : PAfterGetDialogs(t, ok)
  \/ \E t \in SeenTasks, ok \in BOOLEAN, fetched \in BOOLEAN :
       PAfterGetMessages(t, ok, fetched)
  \/ \E t \in SeenTasks, ok \in BOOLEAN : PAfterDelay(t, ok)
  \/ \E t \in SeenTasks, ok \in BOOLEAN : PAfterSend(t, ok)
  \/ \E t \in SeenTasks : PAfterDisconnect(t)

SpecSeen == QInit /\ [][QNext]_vars

\* The polling variant over two accounts: its entry points called at any
\* moment while the settings change.
YInit ==
  /\ HandlerIdle
  /\ PollIdle
  /\ SvcIdle
  /\ settings = [present |-> FALSE]
  /\ now = 0
  /\ nTicks = 0
  /\ UtilIdle

YNext ==
  \/ \E a \in Accounts : QStartPolling(a)
  \/ \E a \in Accounts : QDisconnectAccount(a)
  \/ \E a \in Accounts, i \in 1..MaxAccounts : QIntervalFires([acct |-> a, id |-> i])
  \/ \E a \in Accounts, ok \in BOOLEAN : QPollSettled(a, ok)
  \/ \E t \in QTasks, a \in Accounts : QConnectAccount(t, a)
  \/ \E t \in QTasks, ok \in BOOLEAN : QCAfterSettings(t, ok)
  \/ QStop
  \/ \E t \in QTasks : QRefresh(t)
  \/ \E t \in QTasks, ok \in BOOLEAN : QRAfterQuery(t, ok)
  \/ \E t \in QTasks : QRAfterStart(t)
  \/ \E a \in Accounts, st \in SvcSettings : SettingsChange(a, st)

SpecPollLife == YInit /\ [][YNext]_vars

\* The logger bot: sendLog calls and /start messages of two users.
GNext ==
  \/ \E t \in GTasks, u \in LogUsers : SendLog(t, u)
  \/ \E t \in GTasks, ok \in BOOLEAN : GQueryRuns(t, ok)
  \/ \E t \in GTasks : GAfterHasStarted(t)
  \/ \E t \in GTasks, res \in {"ok", "nothing", "blocked", "error"} : GAfterSend(t, res)
  \/ \E t \in GTasks, ok \in BOOLEAN : GUpdateRuns(t, ok)
  \/ \E t \in GTasks : GAfterMark(t)
  \/ \E t \in GTasks, u \in LogUsers : OnStart(t, u)
  \/ \E t \in GTasks : TAfterMark(t)
  \/ \E t \in GTasks, res \in {"ok", "blocked", "error"} : TAfterWelcome(t, res)

SpecLog == YInit /\ [][GNext]_vars

\* The service once start() has returned with no account enabled (lines
\* 327-360): both loops are armed, the registry is empty.
SvcStarted ==
  /\ connectedAccounts = <<>>
  /\ handlers = [c \in Clients |-> 0]
  /\ connected = [c \in Clients |-> FALSE]
  /\ accountSettings = [a \in Accounts |-> [present |-> FALSE]]
  /\ stask = [t \in STasks |-> IdleSvc]
  /\ offlineInterval = 1
  /\ offlineTimers = {1}
  /\ healthCheckInterval = 1
  /\ healthIntervals = {1}
  /\ dcall = NoCall
  /\ stopped = FALSE
  /\ revoked = {}

SInit ==
  /\ HandlerIdle
  /\ PollIdle
  /\ SvcStarted
  /\ settings = [present |-> FALSE]
  /\ now = 0
  /\ nTicks = 0
  /\ UtilIdle

SNext ==
  \/ \E t \in STasks, a \in SvcAccounts : ConnectAccount(t, a)
  \/ \E t \in STasks, ok \in BOOLEAN : CAfterSettings(t, ok)
  \/ \E t \in STasks, res \in {"row", "norow", "throw"} : CAfterDb(t, res)
  \/ \E t \in STasks, res \in {"client", "none", "throw"}, c \in Clients :
       CAfterConnect(t, res, c)
  \/ \E t \in STasks : CAfterOffline1(t)
  \/ \E t \in STasks, ok \in BOOLEAN : CAfterDelay1(t, ok)
  \/ \E t \in STasks : CAfterVerify1(t)
  \/ \E t \in STasks, ok \in BOOLEAN : CAfterDelay2(t, ok)
  \/ \E t \in STasks : CAfterVerify2(t)
  \/ \E t \in STasks : CAfterOffline2(t)
  \/ \E t \in STasks : ConnectResolved(t)
  \/ \E a \in SvcAccounts : DisconnectAccount(a)
  \/ \E a \in SvcAccounts, s \in SvcSettings : SettingsChange(a, s)
  \/ \E c \in Clients : ClientDrops(c)
  \/ \E t \in STasks : PerformHealthCheck(t)
  \/ \E t \in STasks, ok \in BOOLEAN : HAfterVerify(t, ok)
  \/ \E t \in STasks : HAfterOffline(t)
  \/ \E t \in STasks : HAfterReconnect(t)
  \/ \E t \in STasks : OfflineLoopFires(t)
  \/ \E t \in STasks, ok \in BOOLEAN : OAfterOffline(t, ok)
  \/ \E t \in STasks : OAfterReconnect(t)
  \/ \E t \in STasks : Refresh(t)
  \/ \E t \in STasks, ok \in BOOLEAN : RAfterQuery(t, ok)
  \/ \E t \in STasks : RefreshResolved(t)
  \/ \E t \in STasks : R1AfterDisconnect(t)
  \/ \E t \in STasks, ok \in BOOLEAN : R2AfterVerify(t, ok)
  \/ \E t \in STasks : R2AfterVerify2(t)
  \/ \E t \in STasks : R2AfterOffline(t)
  \/ \E t \in STasks : R2AfterReconnect(t)
  \/ \E t \in STasks : R3AfterConnect(t)

SpecSvc == SInit /\ [][SNext]_vars

\* The service running with both accounts enabled, registered and connected
\* (start() has returned, lines 327-360).
SvcRunning ==
  /\ connectedAccounts = [a \in Accounts |->
                            [key |-> a, client |-> a, lastHealthCheck |-> 0]]
  /\ handlers = [c \in Clients |-> 1]
  /\ connected = [c \in Clients |-> TRUE]
  /\ accountSettings = [a \in Accounts |-> MkSettings(TRUE, "Away", TRUE, "Busy")]
  /\ stask = [t \in STasks |-> IdleSvc]
  /\ offlineInterval = 1
  /\ offlineTimers = {1}
  /\ healthCheckInterval = 1
  /\ healthIntervals = {1}
  /\ dcall = NoCall
  /\ stopped = FALSE
  /\ revoked = {}

\* The two background loops over two accounts, one of them running at a
\* time, with the callers of disconnectAccount and the environment.
WInit ==
  /\ HandlerIdle
  /\ PollIdle
  /\ SvcRunning
  /\ settings = [present |-> FALSE]
  /\ now = 0
  /\ nTicks = 0
  /\ UtilIdle

WNext ==
  \/ \E t \in WalkTasks, ok \in BOOLEAN : CAfterSettings(t, ok)
  \/ \E t \in WalkTasks, res \in {"row", "norow", "throw"} : CAfterDb(t, res)
  \/ \E t \in WalkTasks, res \in {"client", "none", "throw"}, c \in Clients :
       CAfterConnect(t, res, c)
  \/ \E t \in WalkTasks : CAfterOffline1(t)
  \/ \E t \in WalkTasks, ok \in BOOLEAN : CAfterDelay1(t, ok)
  \/ \E t \in WalkTasks : CAfterVerify1(t)
  \/ \E t \in WalkTasks, ok \in BOOLEAN : CAfterDelay2(t, ok)
  \/ \E t \in WalkTasks : CAfterVerify2(t)
  \/ \E t \in WalkTasks : CAfterOffline2(t)
  \/ \E a \in Accounts : DisconnectCall(a)
  \/ DisconnectResolved
  \/ \E a \in Accounts, s \in SvcSettings : SettingsChange(a, s)
  \/ \E c \in Clients : ClientDrops(c)
  \/ \E c \in Clients : HandlerDetached(c)
  \/ \E t \in WalkTasks : PerformHealthCheck(t)
  \/ \E t \in WalkTasks, ok \in BOOLEAN : HAfterVerify(t, ok)
  \/ \E t \in WalkTasks : HAfterOffline(t)
  \/ \E t \in WalkTasks : HAfterReconnect(t)
  \/ \E t \in WalkTasks : OfflineLoopFires(t)
  \/ \E t \in WalkTasks, ok \in BOOLEAN : OAfterOffline(t, ok)
  \/ \E t \in WalkTasks : OAfterReconnect(t)

SpecWalk == WInit /\ [][WNext]_vars

\* A step of connectAccount in task t: the await it is suspended at settles.
ConnectStep(t) ==
  \/ \E ok \in BOOLEAN : CAfterSettings(t, ok)
  \/ \E res \in {"row", "norow", "throw"} : CAfterDb(t, res)
  \/ \E res \in {"client", "none", "throw"}, c \in Clients : CAfterConnect(t, res, c)
  \/ CAfterOffline1(t)
  \/ \E ok \in BOOLEAN : CAfterDelay1(t, ok)
  \/ CAfterVerify1(t)
  \/ \E ok \in BOOLEAN : CAfterDelay2(t, ok)
  \/ CAfterVerify2(t)
  \/ CAfterOffline2(t)

\* A step of the presence walk in task t after its timer fired.
PresenceStep(t) ==
  \/ \E ok \in BOOLEAN : OAfterOffline(t, ok)
  \/ OAfterReconnect(t)

\* The presence cycle alone over two accounts, with the callers of
\* disconnectAccount and the environment.  Every await settles and a
\* pending timer fires.
XInit ==
  /\ HandlerIdle
  /\ PollIdle
  /\ SvcRunning
  /\ settings = [present |-> FALSE]
  /\ now = 0
  /\ nTicks = 0
  /\ UtilIdle

XNext ==
  \/ \E t \in WalkTasks : OfflineLoopFires(t)
  \/ \E t \in WalkTasks : PresenceStep(t)
  \/ \E t \in WalkTasks : ConnectStep(t)
  \/ \E a \in Accounts : DisconnectCall(a)
  \/ DisconnectResolved
  \/ \E a \in Accounts, s \in SvcSettings : SettingsChange(a, s)
  \/ \E c \in Clients : ClientDrops(c)

SpecPresence ==
  /\ XInit
  /\ [][XNext]_vars
  /\ \A t \in WalkTasks : WF_vars(OfflineLoopFires(t))
  /\ \A t \in WalkTasks : WF_vars(PresenceStep(t))
  /\ \A t \in WalkTasks : WF_vars(ConnectStep(t))

\* The health check over two accounts as time passes, half a period at a
\* time, with connections lost, handlers detached and settings changed
\* under it.
KInit ==
  /\ HandlerIdle
  /\ PollIdle
  /\ SvcRunning
  /\ settings = [present |-> FALSE]
  /\ now = 0
  /\ nTicks = 0
  /\ UtilIdle

KNext ==
  \/ \E t \in WalkTasks : PerformHealthCheck(t)
  \/ \E t \in WalkTasks, ok \in BOOLEAN : HAfterVerify(t, ok)
  \/ \E t \in WalkTasks : HAfterOffline(t)
  \/ \E t \in WalkTasks : HAfterReconnect(t)
  \/ \E t \in WalkTasks : ConnectStep(t)
  \/ \E a \in Accounts, s \in SvcSettings : SettingsChange(a, s)
  \/ \E c \in Clients : ClientDrops(c)
  \/ \E c \in Clients : HandlerDetached(c)
  \/ \E d \in HealthTimeSteps : Tick(d)

SpecHealth == KInit /\ [][KNext]_vars

\* The two background loops over two accounts, one of them running at a
\* time, with connections lost, with settings changed, and with connects
\* failing on revoked credentials.
AInit ==
  /\ HandlerIdle
  /\ PollIdle
  /\ SvcRunning
  /\ settings = [present |-> FALSE]
  /\ now = 0
  /\ nTicks = 0
  /\ UtilIdle

ANext ==
  \/ \E t \in WalkTasks : PerformHealthCheck(t)
  \/ \E t \in WalkTasks, ok \in BOOLEAN : HAfterVerify(t, ok)
  \/ \E t \in WalkTasks : HAfterOffline(t)
  \/ \E t \in WalkTasks : HAfterReconnect(t)
  \/ \E t \in WalkTasks : OfflineLoopFires(t)
  \/ \E t \in WalkTasks : PresenceStep(t)
  \/ \E t \in WalkTasks : ConnectStep(t)
  \/ \E t \in WalkTasks, thrown \in BOOLEAN : CAfterConnectRevoked(t, thrown)
  \/ \E a \in Accounts, s \in SvcSettings : SettingsChange(a, s)
  \/ \E c \in Clients : ClientDrops(c)
  \/ \E c \in Clients : HandlerDetached(c)

SpecAuth == AInit /\ [][ANext]_vars

\* The life cycle of the service for one account: start, stop and
\* startOfflineStatusLoop called at any moment, with connectAccount and the
\* two loops, one entry point running at a time.
LInit ==
  /\ HandlerIdle
  /\ PollIdle
  /\ SvcIdle
  /\ settings = [present |-> FALSE]
  /\ now = 0
  /\ nTicks = 0
  /\ UtilIdle

LNext ==
  \/ \E t \in WalkTasks : Start(t)
  \/ \E t \in WalkTasks, ok \in BOOLEAN : SAfterQuery(t, ok)
  \/ \E t \in WalkTasks : SAfterConnect(t)
  \/ Stop
  \/ StartOfflineStatusLoop
  \/ \E t \in WalkTasks, a \in SvcAccounts : ConnectAccount(t, a)
  \/ \E t \in WalkTasks, ok \in BOOLEAN : CAfterSettings(t, ok)
  \/ \E t \in WalkTasks, res \in {"row", "norow", "throw"} : CAfterDb(t, res)
  \/ \E t \in WalkTasks, res \in {"client", "none", "throw"}, c \in Clients :
       CAfterConnect(t, res, c)
  \/ \E t \in WalkTasks : CAfterOffline1(t)
  \/ \E t \in WalkTasks, ok \in BOOLEAN : CAfterDelay1(t, ok)
  \/ \E t \in WalkTasks : CAfterVerify1(t)
  \/ \E t \in WalkTasks, ok \in BOOLEAN : CAfterDelay2(t, ok)
  \/ \E t \in WalkTasks : CAfterVerify2(t)
  \/ \E t \in WalkTasks : CAfterOffline2(t)
  \/ \E t \in WalkTasks : ConnectResolved(t)
  \/ \E a \in SvcAccounts, s \in SvcSettings : SettingsChange(a, s)
  \/ \E c \in Clients : ClientDrops(c)
  \/ \E t \in WalkTasks : PerformHealthCheck(t)
  \/ \E t \in WalkTasks, ok \in BOOLEAN : HAfterVerify(t, ok)
  \/ \E t \in WalkTasks : HAfterOffline(t)
  \/ \E t \in WalkTasks : HAfterReconnect(t)
  \/ \E t \in WalkTasks : OfflineLoopFires(t)
  \/ \E t \in WalkTasks, ok \in BOOLEAN : OAfterOffline(t, ok)
  \/ \E t \in WalkTasks : OAfterReconnect(t)

SpecLife == LInit /\ [][LNext]_vars

\* The functions without state, called with every input of their input sets.
UInit ==
  /\ HandlerIdle
  /\ PollIdle
  /\ SvcIdle
  /\ settings = [present |-> FALSE]
  /\ now = 0
  /\ nTicks = 0
  /\ UtilIdle

UNext ==
  \/ \E in \in SelfCheckInputs : CallIsMessageFromSelf(in)
  \/ \E k \in RandomDraws : ScheduleNextDelay(k)
  \/ \E limit \in LimitInputs, maxLimit \in MaxLimits : CallSanitizeLimit(limit, maxLimit)

SpecUtil == UInit /\ [][UNext]_vars

\* The rate limiter: calls of checkRateLimit for two users as time passes.
RNext ==
  \/ \E u \in RateUsers, m \in RateLimits : CheckRateLimit(u, m)
  \/ \E d \in RateTimeSteps : Tick(d)

SpecRate == UInit /\ [][RNext]_vars

\* ================================================================= claims
InSend(t) == task[t].pc \in {"sendDM", "sendGroup"}
PastCheck(t) == task[t].pc \in {"getSettings", "triggers", "sendDM", "sendGroup"}
KeyOf(t) == getMessageKey(task[t].msg.chat, task[t].msg.id)

\* C1: two events with the same (accountId, chatId, messageId) handled
\* concurrently never both reach client.sendMessage: no two tasks are in a
\* send for the same message key.
C1_OneSendPerKey ==
  \A t1, t2 \in HTasks :
    (t1 # t2 /\ InSend(t1) /\ InSend(t2)) => KeyOf(t1) # KeyOf(t2)

\* C2: the in-flight guard is an atomic check-and-set: a task that has
\* passed the isProcessingMessage check and is suspended at an await holds
\* the marker of its key.
C2_MarkerHeldAtEveryAwait ==
  \A t \in HTasks : PastCheck(t) => KeyOf(t) \in processingMessages

\* C3: two direct-message replies to the same chat are never less than the
\* cooldown window apart.
C3_DmRepliesCooldownApart ==
  \A i, j \in DOMAIN replyLog :
    (i < j /\ replyLog[i].dm /\ replyLog[j].dm /\ replyLog[i].chat = replyLog[j].chat)
      => replyLog[j].at - replyLog[i].at >= COOLDOWN_MS

\* C4: a direct message checked 30 minutes or more after the recorded reply
\* is not refused for cooldown: whenever the handler returns on the cooldown
\* check, the recorded reply is less than 30 minutes old.
C4_NoCooldownFromWindowEnd ==
  \A t \in HTasks : task[t].outcome = "cooldown" => task[t].age < COOLDOWN_MS

\* C5: in the polling variant, a direct message that a poll sees less than
\* 30 minutes after a direct-message reply to the same chat gets no reply.
C5_PollDmCooldown ==
  \A k \in DOMAIN pollLog : ~pollLog[k].prior

\* C6: an invocation that set the in-flight marker has removed it when it
\* returns, after a successful and after a failed send; an invocation that
\* returns before the send leaves processingMessages as it was.
C6_MarkerReleasedOnReturn ==
  [][\A t \in HTasks :
       (task[t].pc # "done" /\ task'[t].pc = "done") =>
         IF InSend(t)
         THEN KeyOf(t) \notin processingMessages'
         ELSE processingMessages' = processingMessages]_vars

\* C6 witness: an invocation whose send failed has returned and no marker is left.
C6_Witness ==
  \E t \in HTasks : task[t].outcome = "sendfailed" /\ processingMessages = {}

\* C7: no marker is in processingMessages more than 30 seconds after it was set.
C7_MarkerExpires ==
  \A k \in processingMessages :
    k \in DOMAIN markedAt /\ now - markedAt[k].at <= AUTO_CLEANUP_MS

\* C7 witness: the timer removed the marker of the only running invocation,
\* which is still awaiting its send and has not called clearMessageProcessing.
C7_Witness ==
  \E t \in HTasks :
    /\ InSend(t)
    /\ KeyOf(t) \notin processingMessages
    /\ \A u \in HTasks \ {t} : task[u].pc = "idle"

\* No two entries of connectedAccounts have the same key.
RegistryKeysUnique ==
  \A i, j \in DOMAIN connectedAccounts :
    i # j => connectedAccounts[i].key # connectedAccounts[j].key

\* C8 (as amended): connectedAccounts holds at most one entry per account;
\* a connectAccount call that finds, at its already-connected check, the
\* account registered with a connected client goes on with that client
\* and makes no getClientAndConnect call, and when it returns true the
\* account's entry is bound to that client.
C8_UniqueEntryAndReuse ==
  /\ RegistryKeysUnique
  /\ \A t \in STasks :
       stask[t].reuse # 0 =>
         /\ stask[t].calls = 0
         /\ stask[t].pc \in ConnectPcs => stask[t].client = stask[t].reuse
         /\ stask[t].ret = "true" => stask[t].entryAtRet = stask[t].reuse

\* A connectAccount call that took the registered client has returned true.
C8_Witness ==
  \E t \in STasks : stask[t].reuse # 0 /\ stask[t].ret = "true"

\* C8 (as stated): at most one entry per account, and every connectAccount
\* call made while the account's registered client is connected reuses
\* that client, makes no getClientAndConnect call and leaves the account's
\* entry bound to that client.
C8_IdempotentConnect ==
  /\ RegistryKeysUnique
  /\ \A t \in STasks :
       (stask[t].regAtCall # 0 /\ stask[t].ret # "none") =>
         /\ stask[t].calls = 0
         /\ stask[t].reuse = stask[t].regAtCall
         /\ stask[t].entryAtRet = stask[t].regAtCall

\* C9: no client ever carries more than one NewMessage handler, and when
\* connectAccount returns true its client carries exactly one.
C9_ExactlyOneHandler ==
  /\ \A c \in Clients : handlers[c] <= 1
  /\ \A t \in STasks : stask[t].ret = "true" => stask[t].hAtRet = 1

\* C10: when connectAccount returns false, connectedAccounts holds no entry
\* for the account.
C10_FailedConnectLeavesNoEntry ==
  \A t \in STasks : stask[t].ret = "false" => stask[t].entryAtRet = 0

\* Both enable flags of the account's settings are false.
AutoReplyDisabled(a) ==
  /\ accountSettings[a].present
  /\ ~accountSettings[a].autoReplyDmEnabled
  /\ ~accountSettings[a].autoReplyGroupsEnabled

\* C11: no registry entry is created for an account while both enable
\* flags of its settings are false; and once a refresh has returned true
\* whose query ran with the flags false, the flags not having been changed
\* since, the account is not in the registry.
C11_DisabledNeverRegistered ==
  [][\A a \in Accounts :
       /\ (AutoReplyDisabled(a) /\ SeqHas(connectedAccounts', a))
             => SeqHas(connectedAccounts, a)
       /\ \A t \in STasks :
            (/\ stask'[t].pc = "r_ret"
             /\ stask'[t].ret = "true"
             /\ ~stask'[t].stale
             /\ AutoReplyDisabled(a)')
              => ~SeqHas(connectedAccounts', a)]_vars

\* A disconnectAccount call is made in this step.
DisconnectCalled == dcall = NoCall /\ dcall' # NoCall

C13_DisconnectUnregisteredNoOp ==
  [][(DisconnectCalled /\ dcall'.client = 0)
       => UNCHANGED <<connectedAccounts, handlers, connected, lvars>>]_vars

\* disconnectAccount has returned for an account without an entry while the
\* other account is registered with its handler and both loops are armed.
C13_Witness ==
  /\ dcall.acct # 0
  /\ dcall.client = 0
  /\ \E i \in DOMAIN connectedAccounts :
       /\ connectedAccounts[i].key # dcall.acct
       /\ handlers[connectedAccounts[i].client] = 1
       /\ connected[connectedAccounts[i].client]
  /\ offlineTimers # {}
  /\ healthIntervals # {}

\* C14: from the moment stop() has run until start, connectAccount, refresh
\* or startOfflineStatusLoop is called again, the registry is empty and
\* neither a presence timer nor a health-check interval is pending, whatever
\* was suspended at an await when stop() ran.
C14_StopCancelsEverything ==
  stopped => /\ connectedAccounts = <<>>
             /\ offlineTimers = {}
             /\ healthIntervals = {}

\* The presence walks running: the timer callbacks that have not returned.
PresenceWalks == {t \in STasks : stask[t].op = "presence"}

\* C15: at most one presence timer is pending or presence walk is running.
C15_SinglePresenceChain ==
  Cardinality(offlineTimers) + Cardinality(PresenceWalks) <= 1

\* The accounts that have a registry entry.
RegisteredKeys == {connectedAccounts[i].key : i \in DOMAIN connectedAccounts}

\* The loop of the presence walk in task t takes its next entry in this step.
PresenceTakesEntry(t) ==
  /\ OfflineLoopFires(t) \/ PresenceStep(t)
  /\ stask'[t].op = "presence"

\* The presence walk in task t returns in this step.
PresenceWalkEnds(t) == stask[t].op = "presence" /\ stask'[t].op = "idle"

HealthCheckStep(t) ==
  \/ PerformHealthCheck(t)
  \/ \E ok \in BOOLEAN : HAfterVerify(t, ok)
  \/ HAfterOffline(t)
  \/ HAfterReconnect(t)

\* The loop of the health check in task t takes its next entry in this step.
HealthTakesEntry(t) ==
  /\ HealthCheckStep(t)
  /\ stask'[t].op = "health"
  /\ stask'[t].pos = stask[t].pos + 1

\* C17: a presence walk or a health check that takes an entry whose client
\* is not connected calls connectAccount for that account in the same step.
C17_DisconnectedIsReconnected ==
  [][\A t \in STasks :
       ((PresenceTakesEntry(t) \/ HealthTakesEntry(t))
          /\ ~connected[connectedAccounts[stask'[t].pos].client])
         => /\ stask'[t].pc = "c_settings"
            /\ stask'[t].acct = connectedAccounts[stask'[t].pos].key]_vars

\* A health check has found the client of the second of two entries
\* disconnected and is in connectAccount for that account.
C17_Witness ==
  \E t \in STasks :
    /\ stask[t].op = "health"
    /\ stask[t].pc = "c_settings"
    /\ ~stask[t].failed
    /\ stask[t].pos = MaxAccounts
    /\ stask[t].acct = connectedAccounts[stask[t].pos].key
    /\ ~connected[connectedAccounts[stask[t].pos].client]

\* The health check or presence walk in task t returns in this step.
WalkEnds(t) == stask[t].op \in {"health", "presence"} /\ stask'[t].op = "idle"

\* An account's processing has failed in the walk of task t.
WalkFailed(t) ==
  \/ stask[t].failed
  \/ stask[t].pc \in {"o_next", "h_next"} /\ stask[t].ret = "false"

\* C18: a health check or presence walk in which the processing of an
\* account failed returns only when its loop has taken the entry of every
\* registered account, and the presence callback then reaches scheduleNext
\* (nothing was thrown out of its loop).
C18_FailureDoesNotStopWalk ==
  [][\A t \in STasks :
       (WalkEnds(t) /\ WalkFailed(t))
         => /\ RegisteredKeys \subseteq stask[t].seen
            /\ stask[t].op = "presence" => offlineTimers' # {}]_vars

\* A health check in which the processing of the first account failed is
\* at the entry of the second account.
C18_Witness ==
  \E t \in STasks :
    /\ stask[t].op = "health"
    /\ stask[t].failed
    /\ stask[t].pc = "h_verify"
    /\ stask[t].seen = Accounts
    /\ stask[t].acct = MaxAccounts

\* The health check in task t resumes from verifyHandlerRegistered in this
\* step and finds no handler on the entry's client.
HealthFindsNoHandler(t) ==
  /\ stask[t].pc = "h_verify"
  /\ HealthCheckStep(t)
  /\ ~verifyHandlerRegistered(handlers, stask[t].client)

\* C19 (as the claim states it): a health check that finds the handler of a
\* connected session missing re-attaches it, the client then carrying
\* exactly one handler, and goes on to re-apply the offline presence without
\* calling connectAccount.
C19_RepairedWithoutReconnect ==
  [][\A t \in STasks :
       HealthFindsNoHandler(t)
         => /\ handlers'[stask[t].client] = 1
            /\ stask'[t].pc = "h_offline"]_vars

\* C19 (amended): a health check that finds the handler missing either
\* re-attaches it, the client then carrying exactly one handler, and goes on
\* to re-apply the offline presence and then to the next entry without
\* calling connectAccount; or the re-attachment threw, no handler is
\* attached, and connectAccount is called for the account.
C19_RepairedUnlessAttachThrows ==
  [][\A t \in STasks :
       /\ HealthFindsNoHandler(t)
            => \/ /\ handlers'[stask[t].client] = 1
                  /\ stask'[t].pc = "h_offline"
                  /\ stask'[t].acct = stask[t].acct
                  /\ stask'[t].failed = stask[t].failed
               \/ /\ handlers'[stask[t].client] = 0
                  /\ stask'[t].pc = "c_settings"
                  /\ stask'[t].acct = stask[t].acct
                  /\ stask'[t].failed
       /\ (stask[t].pc = "h_offline" /\ HealthCheckStep(t))
            => stask'[t].op = "idle" \/ HealthTakesEntry(t)]_vars

\* A health check has re-attached the missing handler of the second
\* account's connected client and is re-applying the offline presence.
C19_Witness ==
  \E t \in STasks :
    /\ stask[t].op = "health"
    /\ stask[t].pc = "h_offline"
    /\ stask[t].acct = MaxAccounts
    /\ connected[stask[t].client]
    /\ handlers[stask[t].client] = 1

\* C20: when a health check has tried to re-attach a missing handler and no
\* handler is attached after the attempt, it calls connectAccount for that
\* account in the same step.
C20_ReconnectWhenReattachFails ==
  [][\A t \in STasks :
       (HealthFindsNoHandler(t) /\ ~verifyHandlerRegistered(handlers', stask[t].client))
         => /\ stask'[t].op = "health"
            /\ stask'[t].pc = "c_settings"
            /\ stask'[t].acct = stask[t].acct]_vars

\* A health check is in connectAccount for an account whose client is
\* connected and carries no handler, after its re-attachment threw.
C20_Witness ==
  \E t \in STasks :
    /\ stask[t].op = "health"
    /\ stask[t].pc = "c_settings"
    /\ stask[t].failed
    /\ stask[t].client = 0
    /\ \E i \in DOMAIN connectedAccounts :
         /\ connectedAccounts[i].key = stask[t].acct
         /\ connected[connectedAccounts[i].client]
         /\ handlers[connectedAccounts[i].client] = 0

\* Task t resumes from client.sendMessage in this step and the send went
\* through: a reply to task[t].msg has been sent.
ReplySent(t) == AfterSendDM(t, TRUE) \/ AfterSendGroup(t, TRUE)

\* C21 (as the claim states it): no reply is sent in response to a message
\* authored by the account itself, or whose sender is a bot, or whose text
\* is empty or whitespace-only.
C21_NoReplyToSkipped ==
  [][\A t \in HTasks :
       ReplySent(t) => /\ ~task[t].msg.fromSelf
                       /\ ~task[t].msg.bot
                       /\ ~TrimEmpty(task[t].msg.text)]_vars

\* C21 (amended): no reply is sent in response to a message authored by the
\* account itself (its id a number or a bigint) or whose text is empty or
\* whitespace-only; and a message whose sender isSenderBot has at hand and
\* finds flagged as a bot ends there, with nothing sent and nothing marked.
C21_NoReplyToSkippedIfResolved ==
  [][\A t \in HTasks :
       /\ ReplySent(t) => /\ ~task[t].msg.fromSelf
                          /\ ~TrimEmpty(task[t].msg.text)
       /\ (AfterIsSenderBot(t, TRUE) /\ task[t].msg.bot)
            => /\ task'[t].pc = "done"
               /\ task'[t].outcome = "bot"
               /\ UNCHANGED <<replyLog, processingMessages, repliedChats>>]_vars

\* One handler has dropped a message of the account itself, the other a
\* message of a bot.
C21_Witness ==
  \E t, u \in HTasks :
    /\ task[t].pc = "done" /\ task[t].outcome = "self"
    /\ task[u].pc = "done" /\ task[u].outcome = "bot"

\* Task t resumes from getAccountSettings in this step, the call having
\* resolved, with a message of chat c.
SettingsResolved(t, c) ==
  /\ task[t].pc = "getSettings"
  /\ task[t].msg.chat = c
  /\ AfterGetSettings(t, TRUE)

\* C22: a message of a one-to-one chat that passed the self, bot and
\* empty-text rules is answered as a direct message (client.sendMessage is
\* called with the direct-message text) exactly when the settings have
\* autoReplyDmEnabled set and a direct-message text that is not empty or
\* whitespace-only and the chat is not on cooldown; with autoReplyDmEnabled
\* false it is not answered, whatever the group settings.
C22_DmAnsweredIff ==
  [][\A t \in HTasks :
       SettingsResolved(t, "dm")
         => (task'[t].pc = "sendDM"
              <=> /\ settings.present
                  /\ settings.autoReplyDmEnabled
                  /\ ~TrimEmpty(settings.autoReplyDmMessage)
                  /\ ~hasRepliedToChatRecently(repliedChats, "dm", now))]_vars

\* The same with the test the handler makes of the configured text, its
\* truthiness (line 564).
DmAnsweredIffTruthy ==
  [][\A t \in HTasks :
       SettingsResolved(t, "dm")
         => /\ task'[t].pc = "sendDM"
              <=> /\ settings.present
                  /\ settings.autoReplyDmEnabled
                  /\ Truthy(settings.autoReplyDmMessage)
                  /\ ~hasRepliedToChatRecently(repliedChats, "dm", now)
            /\ task'[t].pc \in {"sendDM", "done"}]_vars

\* The message names the account: by a mention entity, or by the account's
\* @username written in its text.
MentionsAccount(m) == m.mention \/ m.text = "@Me hi"

\* The settings have the group reply enabled with a text that is not empty.
GroupReplyConfigured ==
  /\ settings.present
  /\ settings.autoReplyGroupsEnabled
  /\ ~TrimEmpty(settings.autoReplyGroupsMessage)

\* Task t resumes from isAccountMentioned / isReplyToAccount in this step;
\* `fetched` is whether the replied-to message could be fetched.
TriggersResolved(t, fetched) ==
  /\ task[t].pc = "triggers"
  /\ AfterTriggers(t, fetched)

\* C23 (as the claim states it): in a group with the group reply configured
\* a message that passed the self, bot and empty-text rules is replied to
\* (client.sendMessage is called with the group text) if and only if it
\* mentions the account or is a reply to a message of the account; with
\* neither it gets no reply.
C23_GroupRepliedIffTrigger ==
  [][\A t \in HTasks :
       /\ (SettingsResolved(t, "grp") /\ GroupReplyConfigured) => task'[t].pc = "triggers"
       /\ \A fetched \in BOOLEAN :
            TriggersResolved(t, fetched)
              => /\ task'[t].pc = "sendGroup"
                   <=> (MentionsAccount(task[t].msg) \/ task[t].msg.replyToSelf)
                 /\ task'[t].pc # "sendGroup"
                      => task'[t].outcome = "notrigger" /\ UNCHANGED replyLog]_vars

\* C23 (amended): the same, a reply to a message of the account counting
\* as a trigger when the replied-to message could be fetched.
C23_GroupRepliedIffTriggerFetched ==
  [][\A t \in HTasks :
       /\ (SettingsResolved(t, "grp") /\ GroupReplyConfigured) => task'[t].pc = "triggers"
       /\ \A fetched \in BOOLEAN :
            TriggersResolved(t, fetched)
              => /\ task'[t].pc = "sendGroup"
                   <=> (MentionsAccount(task[t].msg) \/ (fetched /\ task[t].msg.replyToSelf))
                 /\ task'[t].pc # "sendGroup"
                      => task'[t].outcome = "notrigger" /\ UNCHANGED replyLog]_vars

\* One handler is sending the group reply for a message with the account's
\* @username in its text, the other has dropped a group message with
\* neither trigger.
C23_Witness ==
  \E t, u \in HTasks :
    /\ task[t].pc = "sendGroup" /\ task[t].msg.text = "@Me hi" /\ ~task[t].msg.mention
    /\ task[u].pc = "done" /\ task[u].outcome = "notrigger"

\* C24: group replies are not cooldown-gated.  A group message goes from the
\* settings to the trigger tests and, with a trigger confirmed (a mention,
\* or a reply whose referenced message was fetched and is the account's),
\* to client.sendMessage, whatever repliedChats holds and whatever was sent
\* to the group before; no step of a task handling a group message returns
\* on the cooldown or changes repliedChats.
C24_GroupNeverCooldownGated ==
  [][\A t \in HTasks :
       /\ (SettingsResolved(t, "grp") /\ GroupReplyConfigured) => task'[t].pc = "triggers"
       /\ \A fetched \in BOOLEAN :
            (/\ TriggersResolved(t, fetched)
             /\ MentionsAccount(task[t].msg) \/ (fetched /\ task[t].msg.replyToSelf))
              => task'[t].pc = "sendGroup"
       /\ (task[t].msg.chat = "grp" /\ task'[t] # task[t])
            => /\ UNCHANGED repliedChats
               /\ task'[t].outcome # "cooldown"]_vars

\* A reply to a group message has just been sent, no cooldown entry was
\* written for the group, and the reply to another message of the same
\* group is being sent at the same time.
C24_Witness ==
  \E t \in HTasks, i \in DOMAIN replyLog :
    /\ task[t].pc = "sendGroup"
    /\ replyLog[i].chat = task[t].msg.chat
    /\ replyLog[i].id # task[t].msg.id
    /\ replyLog[i].at = now
    /\ task[t].msg.chat \notin DOMAIN repliedChats

\* A cooldown entry is on record, less than the window old, while a group
\* reply is being sent.
GroupSendWithCooldownEntry ==
  \E t \in HTasks, c \in DOMAIN repliedChats :
    /\ task[t].pc = "sendGroup"
    /\ hasRepliedToChatRecently(repliedChats, c, now)

\* Task u set the marker of key k last and is still awaiting its send.
HoldsMarker(u, k) ==
  /\ InSend(u)
  /\ KeyOf(u) = k
  /\ k \in processingMessages
  /\ k \in DOMAIN markedAt
  /\ markedAt[k].by = u

\* The timer that the last markMessageProcessing of key k armed fires in
\* this step.
OwnTimerFires(k) ==
  \E tm \in cleanupTimers :
    /\ tm.key = k
    /\ tm.at = markedAt[k].at + AUTO_CLEANUP_MS
    /\ CleanupFires(tm)

\* C25: while the task that set a marker last is between
\* markMessageProcessing and clearMessageProcessing, the marker is removed
\* by that task's own clearMessageProcessing or by the timer its own
\* markMessageProcessing armed, and by nothing else: not by the timer of an
\* earlier acquisition of the key, not by the release of another task.
C25_MarkerRemovedByHolderOnly ==
  [][\A u \in HTasks, k \in processingMessages :
       (HoldsMarker(u, k) /\ k \notin processingMessages' /\ ~OwnTimerFires(k))
          => ~InSend(u)']_vars

\* The same for the timers alone: no timer of an earlier acquisition
\* removes the marker.
MarkerNotRemovedByOldTimer ==
  [][\A u \in HTasks, k \in processingMessages :
       (HoldsMarker(u, k) /\ k \notin processingMessages' /\ ~OwnTimerFires(k))
          => cleanupTimers' = cleanupTimers]_vars

\* A cooldown entry of chat c is written in this step: created, or given
\* another time.
CooldownWritten(c) ==
  /\ c \in DOMAIN repliedChats'
  /\ c \notin DOMAIN repliedChats \/ repliedChats'[c] # repliedChats[c]

\* C26: a cooldown entry is written only by the step in which the send of a
\* direct-message reply to that chat resolves, with the time of that step;
\* a step in which the send fails leaves repliedChats as it was.
C26_CooldownOnlyAfterDmSend ==
  [][/\ \A c \in HChats :
          CooldownWritten(c)
            => /\ isDM(c)
               /\ repliedChats'[c] = now
               /\ \E t \in HTasks :
                    /\ task[t].pc = "sendDM"
                    /\ task[t].msg.chat = c
                    /\ AfterSendDM(t, TRUE)
     /\ \A t \in HTasks :
          (task[t].pc \in {"sendDM", "sendGroup"} /\ task'[t].outcome = "sendfailed")
            => UNCHANGED repliedChats]_vars

\* The send of a direct-message reply has failed, the chat has no cooldown
\* entry, and the reply to the next direct message of the chat is being sent.
C26_Witness ==
  \E t, u \in HTasks :
    /\ task[t].pc = "done" /\ task[t].outcome = "sendfailed"
    /\ task[u].pc = "sendDM" /\ task[u].msg.chat = "dm" /\ task[u].msg.id = MaxMsgId
    /\ "dm" \notin DOMAIN repliedChats
    /\ replyLog = <<>>

\* C30: a transport error while the sender entity is resolved or while the
\* replied-to message is fetched counts as "condition not met".  With the
\* entity lookup failing, isSenderBot is false and the handler goes on to
\* the text test and to getChat; with the fetch failing, isReplyToAccount
\* is false, the handler does not end on an error, a message that mentions
\* the account goes to client.sendMessage and one that does not ends as
\* not triggered.
C30_TransportErrorIsConditionNotMet ==
  [][\A t \in HTasks :
       /\ (task[t].pc = "isSenderBot" /\ AfterIsSenderBot(t, FALSE))
            => /\ ~isSenderBot(task[t].msg, FALSE)
               /\ task'[t].outcome \notin {"error", "bot"}
               /\ ~TrimEmpty(task[t].msg.text) => task'[t].pc = "getChat"
       /\ TriggersResolved(t, FALSE)
            => /\ ~isReplyToAccount(task[t].msg, FALSE)
               /\ task'[t].outcome # "error"
               /\ MentionsAccount(task[t].msg) => task'[t].pc = "sendGroup"
               /\ ~MentionsAccount(task[t].msg) => task'[t].outcome = "notrigger"]_vars

\* The group reply is being sent for a message that mentions the account
\* and whose sender is a bot: the lookup of the sender entity failed and the
\* handler went on.  Another handler has found no trigger in its message.
C30_Witness ==
  \E t, u \in HTasks :
    /\ task[t].pc = "sendGroup"
    /\ task[t].msg.bot
    /\ task[t].msg.mention
    /\ task[u].pc = "done" /\ task[u].outcome = "notrigger"

\* The health check in task t is done with the entry it took last and its
\* loop goes on (or ends) in this step: the entry was found healthy, or its
\* handler was re-attached and the presence re-applied, or connectAccount
\* has returned.
HealthEntryDone(t) ==
  /\ stask[t].op = "health"
  /\ HealthCheckStep(t)
  /\ \/ stask[t].pc = "h_verify" /\ verifyHandlerRegistered(handlers, stask[t].client)
     \/ stask[t].pc = "h_offline"
     \/ stask[t].pc = "h_next"

\* The entry of account a, if registered, has a lastHealthCheck of at least s.
CheckedSince(reg, a, s) ==
  SeqHas(reg, a) => reg[SeqIndex(reg, a)].lastHealthCheck >= s

\* C27: when performHealthCheck is done with an entry (found healthy,
\* handler re-attached, reconnect succeeded or failed), the account's
\* registry entry, if there is one, has a lastHealthCheck that is not
\* earlier than the start of the check.
C27_AllOutcomesUpdateLastHealthCheck ==
  [][\A t \in STasks :
       HealthEntryDone(t) => CheckedSince(connectedAccounts', stask[t].acct, stask[t].start)]_vars

\* The same for the outcomes other than a connectAccount that returned false.
LastHealthCheckUpdatedUnlessConnectFailed ==
  [][\A t \in STasks :
       (HealthEntryDone(t) /\ ~(stask[t].pc = "h_next" /\ stask[t].ret = "false"))
          => CheckedSince(connectedAccounts', stask[t].acct, stask[t].start)]_vars

\* The connectAccount call of task t fails on revoked credentials in this step.
AuthFailure(t) ==
  /\ stask[t].pc = "c_connect"
  /\ \E thrown \in BOOLEAN : CAfterConnectRevoked(t, thrown)

\* A background loop (health check, presence walk) in task t calls
\* connectAccount in this step.
LoopConnects(t) ==
  /\ stask[t].pc \notin ConnectPcs
  /\ stask'[t].op \in {"health", "presence"}
  /\ stask'[t].pc = "c_settings"

\* C28: a connect that fails on revoked credentials leaves the account
\* without a registry entry, and neither background loop calls
\* connectAccount for the account as long as its settings are not changed.
C28_AuthFailureIsFatal ==
  [][\A t \in STasks :
       /\ AuthFailure(t) => ~SeqHas(connectedAccounts', stask[t].acct)
       /\ LoopConnects(t) => stask'[t].acct \notin revoked]_vars

\* A failure that connectAccount gets as an exception leaves the account
\* without a registry entry.
AuthFailureThrownRemovesEntry ==
  [][\A t \in STasks :
       (stask[t].pc = "c_connect" /\ CAfterConnectRevoked(t, TRUE))
          => ~SeqHas(connectedAccounts', stask[t].acct)]_vars

\* A background loop is in connectAccount for an account whose last connect
\* failed on revoked credentials, the settings unchanged since.
LoopRetriesRevoked ==
  \E t \in STasks :
    /\ stask[t].op \in {"health", "presence"}
    /\ stask[t].pc = "c_settings"
    /\ stask[t].acct \in revoked

\* connectAccount in task t lists the handlers after setupAutoReply in this
\* step (the first time at c_verify1, after the retry at c_verify2) and
\* finds none on its client.
ConnectFindsNoHandler(t, pc) ==
  /\ stask[t].pc = pc
  /\ ConnectStep(t)
  /\ ~verifyHandlerRegistered(handlers, stask[t].client)

\* C29: when connectAccount finds no handler attached after setup, it sets
\* the handler up once more; when it finds none after that retry either,
\* the account is connected anew (connectAccount is entered again for it).
C29_RetryOnceThenReconnect ==
  [][\A t \in STasks :
       /\ ConnectFindsNoHandler(t, "c_verify1") => stask'[t].pc = "c_delay2"
       /\ ConnectFindsNoHandler(t, "c_verify2")
            => /\ stask'[t].pc \in {"c_settings", "c_connect"}
               /\ stask'[t].acct = stask[t].acct]_vars

\* The retry alone: a missing handler after setup leads to one more
\* setupAutoReply, and the second verification leads to no further one; a
\* second failure ends the call with false and the account unregistered.
RetryOnceThenGiveUp ==
  [][\A t \in STasks :
       /\ ConnectFindsNoHandler(t, "c_verify1") => stask'[t].pc = "c_delay2"
       /\ (stask[t].pc = "c_verify2" /\ ConnectStep(t))
            => stask'[t].pc \notin {"c_delay1", "c_delay2"}
       /\ ConnectFindsNoHandler(t, "c_verify2")
            => /\ stask'[t].ret = "false"
               /\ stask'[t].pc \notin ConnectPcs
               /\ ~SeqHas(connectedAccounts', stask[t].acct)]_vars

\* start() in task t starts the health-check loop in this step (lines
\* 349-353, after the last row of its query).
StartArmsHealthCheck(t) ==
  /\ stask[t].op = "start"
  /\ stask'[t].op # "start"
  /\ healthCheckInterval' # healthCheckInterval

\* C31: start() runs performHealthCheck once itself at the moment it begins
\* the periodic schedule, before the first interval has elapsed.
C31_StartRunsHealthCheck ==
  [][\A t \in STasks : StartArmsHealthCheck(t) => stask'[t].op = "health"]_vars

\* What start() does instead: it returns once both loops are started, and a
\* health check is only ever begun by the interval callback.
HealthCheckOnlyFromInterval ==
  [][\A t \in STasks :
       /\ StartArmsHealthCheck(t) => stask'[t].op = "idle" /\ healthIntervals' # {}
       /\ (stask[t].op # "health" /\ stask'[t].op = "health")
            => stask[t].op = "idle" /\ healthIntervals # {}]_vars

\* C32: a reply to a group trigger is sent as a reply to the triggering
\* message, and a direct-message reply carries no reply-to reference.
C32_GroupReplyInThread ==
  \A i \in DOMAIN replyLog :
     replyLog[i].replyTo = IF replyLog[i].dm THEN 0 ELSE replyLog[i].id

\* The direct-message half in the event-driven handler.
DmReplyIsPlainSend ==
  \A i \in DOMAIN replyLog : replyLog[i].dm => replyLog[i].replyTo = 0

\* Both halves in the polling variant (sendReplyWithDelay is given
\* lastMessage for a group trigger and null for a direct message).
PollReplyInThread ==
  \A k \in DOMAIN pollLog :
     pollLog[k].replyTo = IF pollLog[k].dm THEN 0 ELSE k[2]

\* C33: for every auto-reply that was sent, a log record was handed to the
\* logging sink (logAutoReply), and nothing that happens afterwards takes
\* the send or its cooldown entry back.
C33_SentReplyIsLogged ==
  /\ \A i \in DOMAIN replyLog : replyLog[i].logged
  /\ \A i \in DOMAIN replyLog :
       (replyLog[i].dm /\ now - replyLog[i].at < COOLDOWN_MS)
         => replyLog[i].chat \in DOMAIN repliedChats

\* The second half alone: the record of a send is never taken back, and
\* while the cooldown window of a direct-message reply is open the chat
\* keeps a cooldown entry.
SendNeverUndone ==
  /\ \A i \in DOMAIN replyLog :
       (replyLog[i].dm /\ now - replyLog[i].at < COOLDOWN_MS)
         => replyLog[i].chat \in DOMAIN repliedChats
  /\ \A t \in HTasks : task[t].outcome = "sent" =>
       \E i \in DOMAIN replyLog : replyLog[i].by = t

\* The sender id of the message of an isMessageFromSelf call: senderId when
\* the message has one, else fromId.
CalledSenderId ==
  IF ucall.in[1].senderId # NoId THEN ucall.in[1].senderId ELSE ucall.in[1].fromId

\* C34: isMessageFromSelf returns true exactly when the sender id (from
\* senderId or fromId) and meId denote the same integer, whichever of them is
\* a bigint or a number and whether or not fromId has an equals method.
C34_SelfIffSameInteger ==
  (ucall.fn = "isMessageFromSelf" /\ CalledSenderId # NoId)
    => (ucall.out <=> CalledSenderId.v = ucall.in[2].v)

\* The same for ids up to 2^53, which Number() converts without loss.
SelfIffSameIntegerUpTo2p53 ==
  (/\ ucall.fn = "isMessageFromSelf"
   /\ CalledSenderId # NoId
   /\ CalledSenderId.v <= 2
   /\ ucall.in[2].v <= 2)
    => (ucall.out <=> CalledSenderId.v = ucall.in[2].v)

\* C35: in the polling variant a message is replied to at most once, and
\* the last-seen message id of a chat never decreases, whatever else enters
\* the last-seen table.
C35_OneReplyPerMessage ==
  [][/\ \A k \in DOMAIN pollLog' : pollLog'[k].n <= 1
     /\ \A c \in HChats :
          getLastSeenMessageId(lastSeenMessages', c)
            >= getLastSeenMessageId(lastSeenMessages, c)]_vars

\* The same while the table stays within its limit, with overlapping polls.
OneReplyPerMessageWithinLimit ==
  [][/\ \A k \in DOMAIN pollLog' : pollLog'[k].n <= 1
     /\ \A c \in HChats :
          getLastSeenMessageId(lastSeenMessages', c)
            >= getLastSeenMessageId(lastSeenMessages, c)
     /\ Len(lastSeenMessages') <= LAST_SEEN_LIMIT]_vars

\* A message replied to twice.
RepliedTwice == \E k \in DOMAIN pollLog : pollLog[k].n > 1

\* The windows in which every call came with the same limit.
SteadyWindow(u) == u \in DOMAIN rateHist /\ ~rateHist[u].mixed

\* C36: within one window checkRateLimit allows at most maxAttempts calls of
\* a user, for every maxAttempts >= 0; the remaining count it returns is
\* never negative and is maxAttempts less the calls allowed so far in the
\* window.
C36_AtMostMaxAttempts ==
  /\ \A u \in RateUsers : SteadyWindow(u) => rateHist[u].allowed <= rateHist[u].max
  /\ ucall.fn = "checkRateLimit"
       => /\ ucall.out.remaining >= 0
          /\ SteadyWindow(ucall.in[1])
               => ucall.out.remaining = ucall.in[2] - rateHist[ucall.in[1]].allowed

\* The same for the limits of at least 1.
AtMostMaxAttemptsFromOne ==
  /\ \A u \in RateUsers :
       (SteadyWindow(u) /\ rateHist[u].max >= 1) => rateHist[u].allowed <= rateHist[u].max
  /\ (ucall.fn = "checkRateLimit" /\ SteadyWindow(ucall.in[1]) /\ ucall.in[2] >= 1)
       => /\ ucall.out.remaining >= 0
          /\ ucall.out.remaining = ucall.in[2] - rateHist[ucall.in[1]].allowed

\* The active polling timers of account a.
PollingTimersOf(a) == {h \in activeIntervals : h.acct = a}

\* C37: in the polling variant every account has at most one active polling
\* timer, has one exactly when it is in pollingAccounts (the one the Map
\* holds), and no timer is active when stop() has run.
C37_OnePollingTimerPerAccount ==
  [][/\ \A a \in Accounts :
          /\ Cardinality(PollingTimersOf(a)') <= 1
          /\ (PollingTimersOf(a)' # {}) <=> (a \in DOMAIN pollingAccounts')
          /\ a \in DOMAIN pollingAccounts'
               => PollingTimersOf(a)' = {pollingAccounts'[a].intervalId}
     /\ QStop => activeIntervals' = {} /\ pollingAccounts' = <<>>]_vars

\* stop() has run on two polled accounts while a refresh was suspended in
\* its loop and a connectAccount at its settings, and has left no timer.
C37_Witness ==
  /\ stopped
  /\ activeIntervals = {}
  /\ pollingAccounts = <<>>
  /\ qpolls = Accounts
  /\ \E t, u \in QTasks : qtask[t].pc = "r_next" /\ qtask[u].pc = "settings"

\* ---- C38
\* The step of sendLog call t that calls the bot transport.
CallsTransport(t) == gtask[t].pc = "hasStartedDone" /\ gtask'[t].pc = "send"

\* The step in which a send to user u, by sendLog or of the welcome message,
\* is found failed or rejected, and its caller goes on to
\* markLoggerBotStarted(u, false).
SendFailedFor(u) ==
  \E t \in GTasks : /\ gtask[t].user = u
                    /\ gtask[t].pc \in {"send", "welcome"}
                    /\ gtask'[t].pc = "mark0"

LoggerGate ==
  /\ \A t \in GTasks :
       /\ CallsTransport(t) => /\ gtask[t].user \notin blockedUsers
                               /\ gtask[t].seen
       /\ (gtask[t].pc = "hasStarted" /\ gtask'[t].seen) => loggerStarted[gtask[t].user]
  /\ \A u \in LogUsers :
       /\ (u \notin blockedUsers /\ u \in blockedUsers') => SendFailedFor(u)
       /\ (u \in blockedUsers /\ u \notin blockedUsers') =>
            \E t \in GTasks : /\ gtask[t].op = "start" /\ gtask[t].user = u
                              /\ gtask[t].pc = "mark1Done" /\ gtask'[t].pc = "welcome"

C39_DelayWithinBounds ==
  ucall.fn = "scheduleNext" =>
    /\ ucall.out \in OFFLINE_INTERVAL_MIN..OFFLINE_INTERVAL_MAX
    /\ ucall.out - OFFLINE_INTERVAL_MIN
         = (ucall.in.draw * (OFFLINE_INTERVAL_MAX - OFFLINE_INTERVAL_MIN + 1)) \div RandDen
    /\ ucall.in.prev \in {0} \cup (OFFLINE_INTERVAL_MIN..OFFLINE_INTERVAL_MAX)

\* A cycle scheduled with the longest delay after a cycle scheduled with
\* the shortest.
C39_Witness ==
  /\ ucall.fn = "scheduleNext"
  /\ ucall.in.prev = OFFLINE_INTERVAL_MIN
  /\ ucall.out = OFFLINE_INTERVAL_MAX

\* ---- C40
\* C40: sanitizeLimit(limit, maxLimit) returns a positive integer that never
\* exceeds maxLimit, for every limit (valid, non-numeric, zero, negative or
\* fractional) and every positive integer maxLimit, those below 100 too.
C40_LimitWithinMax ==
  ucall.fn = "sanitizeLimit" => (ucall.out >= 1 /\ ucall.out <= ucall.in[2])

\* The same for a maxLimit of at least the default limit, which the code
\* keeps.
LimitWithinMaxFromDefault ==
  (ucall.fn = "sanitizeLimit" /\ ucall.in[2] >= DEFAULT_LIMIT)
    => (ucall.out >= 1 /\ ucall.out <= ucall.in[2])

====
